---------------------------- MODULE Spec2Model ----------------------------
(***************************************************************************)
(* A model of the SuckCode agent orchestration engine:                     *)
(*   - the Permission Gate      (src/suckcode/permissions.py)              *)
(*   - the Stream Decoder       (src/suckcode/suckcode.py, _stream_response)*)
(*   - the Capability Protocol Client (src/suckcode/mcp.py)                *)
(*   - the Orchestration Loop   (src/suckcode/suckcode.py, agentic_loop    *)
(*                               and its callers in main)                  *)
(*   - background jobs          (src/suckcode/tools.py, bash_bg)           *)
(*   - startup                  (src/suckcode/config.py, main)             *)
(*   - remote tool names and tool dispatch (get_tools_schema, run_tool)    *)
(* Each component has its own specification (SpecGate, SpecStream,         *)
(* SpecMcp, SpecLoop, SpecBg, SpecBoot, SpecRoute, SpecTool); a            *)
(* component's specification leaves the others' state alone, except that   *)
(* the loop consults and updates the gate.                                 *)
(*                                                                         *)
(* Text (Python str) is a sequence of one-character strings, so that       *)
(* concatenation, substring search and glob matching are computed.         *)
(***************************************************************************)
EXTENDS Naturals, Integers, Sequences, FiniteSets, TLC

VARIABLES
    \* ---- Permission Gate (PermissionManager) ----
    rules,                  \* self.rules: list of PermissionRule, highest priority first
    mode,                   \* self.mode
    approved_this_session,  \* self.approved_this_session: set of keys
    gate,                   \* the caller's position: idle, or holding check()'s answer
    alwaysSince,            \* history: tools approved with "a" since the last other add_rule
    \* ---- Stream Decoder (_stream_response) ----
    content_buffer,         \* content_buffer
    tool_calls,             \* tool_calls: list of {id, name, arguments}
    events,                 \* the events yielded so far
    consumed,               \* the lines taken from resp.iter_lines() so far
    stream,                 \* the generator's position: "iter", "done" or "raised"
    \* ---- Capability Protocol Client (MCPClient) ----
    servers,                \* self.servers: name -> MCPServer object (0: no entry)
    sobj,                   \* the MCPServer objects created so far
    procs,                  \* the child processes spawned so far
    readers,                \* the reader threads started so far
    all_tools,              \* self.all_tools: "server/tool" -> MCPTool
    all_resources,          \* self.all_resources: uri -> MCPResource
    fg,                     \* the calling thread's position inside the client
    ret,                    \* what connect() returned, until the next operation
    ncalls,                 \* how many tools/call and resources/read requests were sent
    nfaults,                \* how many waits timed out plus how many notifications were sent
    \* ---- Orchestration Loop (main, agentic_loop) ----
    messages,               \* messages: the in-memory conversation
    db_messages,            \* the rows of the session in the messages table
    loop,                   \* main's and agentic_loop's position and locals
    invoked,                \* history: the handler and remote calls made in this turn
    nmodel,                 \* how many times call_api was called
    \* ---- Background jobs (tools.py) ----
    background_processes,   \* _background_processes: name -> child
    bg_counter,             \* _bg_counter
    bg_started,             \* history: the children bash_bg has started
    bg_exit,                \* the interpreter has exited (atexit handlers ran)
    \* ---- Startup (main, load_config) ----
    environment,            \* config files, environment variables and arguments
    boot,                   \* main's position and what it has done so far
    \* ---- Remote tool names (get_tools_schema, agentic_loop dispatch) ----
    advertised,             \* the function names get_tools_schema() returned
    routed,                 \* where the loop sent the last call made under one
    \* ---- Tool dispatch (tools.py run_tool, db.py track_file_change) ----
    file_changes,           \* the rows of the session in the file_changes table
    ran                     \* history: the run_tool calls made so far

gateVars == <<rules, mode, approved_this_session, gate, alwaysSince>>
streamVars == <<content_buffer, tool_calls, events, consumed, stream>>
mcpVars == <<servers, sobj, procs, readers, all_tools, all_resources, fg, ret,
             ncalls, nfaults>>
loopVars == <<messages, db_messages, loop, invoked, nmodel>>
bgVars == <<background_processes, bg_counter, bg_started, bg_exit>>
bootVars == <<environment, boot>>
routeVars == <<advertised, routed>>
toolVars == <<file_changes, ran>>

vars == <<rules, mode, approved_this_session, gate, alwaysSince,
          content_buffer, tool_calls, events, consumed, stream,
          servers, sobj, procs, readers, all_tools, all_resources, fg, ret,
          ncalls, nfaults,
          messages, db_messages, loop, invoked, nmodel,
          background_processes, bg_counter, bg_started, bg_exit,
          environment, boot, advertised, routed, file_changes, ran>>

\* A step of one component leaves the other components' state alone.
GateOnly == UNCHANGED <<streamVars, mcpVars, loopVars, bgVars, bootVars, routeVars,
                        toolVars>>
StreamOnly == UNCHANGED <<gateVars, mcpVars, loopVars, bgVars, bootVars, routeVars,
                        toolVars>>
McpOnly == UNCHANGED <<gateVars, streamVars, loopVars, bgVars, bootVars, routeVars,
                        toolVars>>
LoopOnly == UNCHANGED <<streamVars, mcpVars, gate, bgVars, bootVars, routeVars,
                        toolVars>>

(***************************************************************************)
(* Python values                                                           *)
(***************************************************************************)
\* Python's None; no text equals it (texts hold one-character strings only).
None == <<"None">>

\* bool(v) for v a text or None.
Truthy(v) == v # None /\ v # <<>>

\* a or b
PyOr(a, b) == IF Truthy(a) THEN a ELSE b

\* dict.get(k) / dict.get(k, default)
Get(d, k) == IF k \in DOMAIN d THEN d[k] ELSE None
GetDefault(d, k, dflt) == IF k \in DOMAIN d THEN d[k] ELSE dflt

\* sub in s  (Python substring test)
Contains(sub, s) ==
    \E i \in 0..Len(s) : i + Len(sub) <= Len(s) /\ SubSeq(s, i + 1, i + Len(sub)) = sub

\* fnmatch.fnmatch(name, pat) on POSIX (normcase is the identity there):
\* '*' matches any run of characters, '?' any one character.
RECURSIVE FnMatch(_, _)
FnMatch(name, pat) ==
    IF pat = <<>> THEN name = <<>>
    ELSE IF Head(pat) = "*"
         THEN FnMatch(name, Tail(pat)) \/ (name # <<>> /\ FnMatch(Tail(name), pat))
    ELSE IF Head(pat) = "?"
         THEN name # <<>> /\ FnMatch(Tail(name), Tail(pat))
    ELSE name # <<>> /\ Head(name) = Head(pat) /\ FnMatch(Tail(name), Tail(pat))

(***************************************************************************)
(* Permission Gate                                                         *)
(***************************************************************************)
Star == <<"*">>
T_read == <<"r","e","a","d">>
T_ls == <<"l","s">>
T_glob == <<"g","l","o","b">>
T_grep == <<"g","r","e","p">>
T_find == <<"f","i","n","d">>
T_git_status == <<"g","i","t","_","s","t","a","t","u","s">>
T_git_diff == <<"g","i","t","_","d","i","f","f">>
T_git_log == <<"g","i","t","_","l","o","g">>
T_changes == <<"c","h","a","n","g","e","s">>
T_watch == <<"w","a","t","c","h">>
T_think == <<"t","h","i","n","k">>
T_fetch == <<"f","e","t","c","h">>
T_bash == <<"b","a","s","h">>
T_write == <<"w","r","i","t","e">>

PermissionRule(tool, pattern, action) ==
    [tool |-> tool, pattern |-> pattern, action |-> action]

DEFAULT_RULES == <<
    PermissionRule(T_read, Star, "allow"),
    PermissionRule(T_ls, Star, "allow"),
    PermissionRule(T_glob, Star, "allow"),
    PermissionRule(T_grep, Star, "allow"),
    PermissionRule(T_find, Star, "allow"),
    PermissionRule(T_git_status, Star, "allow"),
    PermissionRule(T_git_diff, Star, "allow"),
    PermissionRule(T_git_log, Star, "allow"),
    PermissionRule(T_changes, Star, "allow"),
    PermissionRule(T_watch, Star, "allow"),
    PermissionRule(T_think, Star, "allow"),
    PermissionRule(T_fetch, Star, "allow") >>

Modes == {"ask", "auto", "strict"}

\* PermissionRule.matches(tool_name, path)
Matches(rule, tool_name, path) ==
    IF rule.tool # Star /\ rule.tool # tool_name THEN FALSE
    ELSE IF Truthy(path) /\ rule.pattern # Star /\ ~FnMatch(path, rule.pattern) THEN FALSE
    ELSE TRUE

\* path = args.get("path") or args.get("file") or args.get("save_path")
CheckPath(args) == PyOr(PyOr(Get(args, "path"), Get(args, "file")), Get(args, "save_path"))

\* command = args.get("command", "")
CheckCommand(args) == GetDefault(args, "command", <<>>)

\* The "for rule in self.rules" loop of check(): the decision the first
\* deciding rule gives, or "none" when the loop runs to its end.
RECURSIVE RuleLoop(_, _, _, _)
RuleLoop(rs, tool_name, path, command) ==
    IF rs = <<>> THEN [allowed |-> "none", reason |-> "none"]
    ELSE LET rule == Head(rs) IN
         IF /\ tool_name = T_bash /\ rule.tool = T_bash
            /\ rule.pattern # Star /\ Contains(rule.pattern, command)
         THEN IF rule.action = "deny"
              THEN [allowed |-> "deny", reason |-> "Denied: command matches blocked pattern"]
              ELSE RuleLoop(Tail(rs), tool_name, path, command)     \* continue
         ELSE IF Matches(rule, tool_name, path)
              THEN IF rule.action = "deny"
                   THEN [allowed |-> "deny", reason |-> "Denied: matches rule"]
                   ELSE IF rule.action = "allow"
                   THEN [allowed |-> "allow", reason |-> "Auto-approved by rule"]
                   ELSE RuleLoop(Tail(rs), tool_name, path, command)
              ELSE RuleLoop(Tail(rs), tool_name, path, command)

\* key = f"{tool_name}:{path or command}"
CheckKey(tool_name, args) == tool_name \o <<":">> \o PyOr(CheckPath(args), CheckCommand(args))

\* Mutants of ModeDecision: the session approval consulted before the mode;
\* the auto branch missing.
ModeDecisionApprovedFirst(m, apr, key) ==
    IF key \in apr
    THEN [allowed |-> "allow", reason |-> "Previously approved this session"]
    ELSE IF m = "auto" THEN [allowed |-> "allow", reason |-> "Auto mode enabled"]
    ELSE IF m = "strict"
         THEN [allowed |-> "deny", reason |-> "Strict mode - requires explicit approval"]
    ELSE [allowed |-> "ask", reason |-> "Requires approval"]

ModeDecisionNoAuto(m, apr, key) ==
    IF m = "strict"
    THEN [allowed |-> "deny", reason |-> "Strict mode - requires explicit approval"]
    ELSE IF key \in apr
         THEN [allowed |-> "allow", reason |-> "Previously approved this session"]
    ELSE [allowed |-> "ask", reason |-> "Requires approval"]

\* The mode-based decision of check(), taken when no rule decided.
ModeDecision(m, apr, key) ==
    IF m = "auto" THEN [allowed |-> "allow", reason |-> "Auto mode enabled"]
    ELSE IF m = "strict"
         THEN [allowed |-> "deny", reason |-> "Strict mode - requires explicit approval"]
    ELSE IF key \in apr
         THEN [allowed |-> "allow", reason |-> "Previously approved this session"]
    ELSE [allowed |-> "ask", reason |-> "Requires approval"]

\* Mutant of Check: the mode consulted before the rule list.
CheckModeFirst(rs, m, apr, tool_name, args) ==
    IF m = "strict"
    THEN [allowed |-> "deny", reason |-> "Strict mode - requires explicit approval"]
    ELSE LET byRule == RuleLoop(rs, tool_name, CheckPath(args), CheckCommand(args))
         IN  IF byRule.allowed # "none" THEN byRule
             ELSE ModeDecision(m, apr, CheckKey(tool_name, args))

\* PermissionManager.check(tool_name, args) on a manager in state (rs, m, apr).
\* allowed: "allow" is True, "deny" is False, "ask" is None.
Check(rs, m, apr, tool_name, args) ==
    LET byRule == RuleLoop(rs, tool_name, CheckPath(args), CheckCommand(args))
    IN  IF byRule.allowed # "none" THEN byRule
        ELSE ModeDecision(m, apr, CheckKey(tool_name, args))

\* check_permission(tool_name, args): check() on the process-wide manager.
check_permission(tool_name, args) ==
    Check(rules, mode, approved_this_session, tool_name, args)

\* approve(): path = args.get("path") or args.get("file") or args.get("command", "")
ApproveKey(tool_name, args) ==
    tool_name \o <<":">>
        \o PyOr(PyOr(Get(args, "path"), Get(args, "file")), GetDefault(args, "command", <<>>))

\* Mutant of add_rule: the rule appended at the lowest priority.
add_rule_append(rs, tool, pattern, action) == rs \o <<PermissionRule(tool, pattern, action)>>

\* add_rule(): self.rules.insert(0, PermissionRule(tool, pattern, action))
add_rule(rs, tool, pattern, action) == <<PermissionRule(tool, pattern, action)>> \o rs

\* approve_all(tool_name): self.add_rule(tool_name, "*", "allow")
approve_all(rs, tool_name) == add_rule(rs, tool_name, Star, "allow")

\* ---- inputs ----
MaxAdded == 2       \* rules added on top of DEFAULT_RULES
MaxApproved == 1    \* keys in approved_this_session

P_x == <<"/","x">>
P_y == <<"/","y">>
C_rm == <<"r","m">>
C_ls == <<"l","s">>

NoArgs == [k \in {} |-> <<>>]
Arg(k, v) == [kk \in {k} |-> v]

\* Argument maps of requested calls.
ArgSet == { NoArgs, Arg("path", P_x), Arg("path", P_y), Arg("file", P_x),
            Arg("save_path", P_x), Arg("command", C_rm), Arg("command", C_ls) }

\* Tool names of requested calls.
CallTools == {T_read, T_bash, T_write}

\* Rules handed to add_rule.
RuleSet ==
    { PermissionRule(T_read, Star, "deny"),
      PermissionRule(T_read, P_x, "deny"),
      PermissionRule(T_read, P_y, "allow"),
      PermissionRule(T_bash, C_rm, "deny"),
      PermissionRule(T_bash, C_rm, "allow"),
      PermissionRule(T_write, Star, "allow"),
      PermissionRule(Star, Star, "deny") }

GateIdle == [pc |-> "idle", tool |-> <<>>, args |-> NoArgs, allowed |-> "none"]

\* _manager is None: no PermissionManager has been constructed yet.
GateAbsent ==
    /\ rules = <<>>
    /\ mode = "ask"
    /\ approved_this_session = {}
    /\ gate = GateIdle
    /\ alwaysSince = {}

\* PermissionManager.__init__
GateInit ==
    /\ rules = DEFAULT_RULES
    /\ mode = "ask"
    /\ approved_this_session = {}
    /\ gate = GateIdle
    /\ alwaysSince = {}

\* set_mode(m): only the three known modes are taken.
SetMode(m) ==
    /\ gate.pc = "idle"
    /\ mode' = IF m \in Modes THEN m ELSE mode
    /\ UNCHANGED <<rules, approved_this_session, gate, alwaysSince>>
    /\ GateOnly

\* add_rule(tool, pattern, action) called directly.
AddRule(r) ==
    /\ gate.pc = "idle"
    /\ Len(rules) < Len(DEFAULT_RULES) + MaxAdded
    /\ rules' = add_rule(rules, r.tool, r.pattern, r.action)
    /\ alwaysSince' = {}
    /\ UNCHANGED <<mode, approved_this_session, gate>>
    /\ GateOnly

\* agentic_loop: allowed, reason = check_permission(tc["name"], args)
CheckPermission(tool_name, args) ==
    /\ gate.pc = "idle"
    /\ gate' = [pc |-> "decided", tool |-> tool_name, args |-> args,
                allowed |-> check_permission(tool_name, args).allowed]
    /\ UNCHANGED <<rules, mode, approved_this_session, alwaysSince>>
    /\ GateOnly

\* agentic_loop: the gate answered True or False; the loop goes on without a prompt.
Proceed ==
    /\ gate.pc = "decided"
    /\ gate.allowed \in {"allow", "deny"}
    /\ gate' = GateIdle
    /\ UNCHANGED <<rules, mode, approved_this_session, alwaysSince>>
    /\ GateOnly

\* prompt_for_permission(tool_name, args) with the user's answer.
PromptForPermission(response) ==
    /\ gate.pc = "decided"
    /\ gate.allowed = "ask"
    /\ IF response = "y"
       THEN /\ Cardinality(approved_this_session) < MaxApproved
            /\ approved_this_session' =
                   approved_this_session \cup {ApproveKey(gate.tool, gate.args)}
            /\ UNCHANGED <<rules, alwaysSince>>
       ELSE IF response = "a"
       THEN /\ Len(rules) < Len(DEFAULT_RULES) + MaxAdded
            /\ rules' = approve_all(rules, gate.tool)
            /\ alwaysSince' = alwaysSince \cup {gate.tool}
            /\ UNCHANGED approved_this_session
       ELSE UNCHANGED <<rules, approved_this_session, alwaysSince>>
    /\ gate' = GateIdle
    /\ UNCHANGED mode
    /\ GateOnly

GateNext ==
    \/ \E m \in Modes \cup {"bogus"} : SetMode(m)
    \/ \E r \in RuleSet : AddRule(r)
    \/ \E t \in CallTools, a \in ArgSet : CheckPermission(t, a)
    \/ Proceed
    \/ \E response \in {"y", "a", "n"} : PromptForPermission(response)


(***************************************************************************)
(* Stream Decoder                                                          *)
(***************************************************************************)
\* A line of the response body, by what the decoder's parsing makes of it:
\*   other        does not start with "data: "
\*   sentinel     "data: [DONE]"
\*   unparseable  json.loads raises JSONDecodeError
\*   nondict      parses to a JSON value that is no object (a list, a number)
\*   chunk        parses to an object; choices is "missing" (no "choices" key),
\*                "empty" (an empty list) or "one" (a list whose first element
\*                holds the delta); content is the delta's "content" (None when
\*                absent or null); tool_calls its "tool_calls" (<<>> when absent)
Line(kind, choices, content, tcs) ==
    [kind |-> kind, choices |-> choices, content |-> content, tool_calls |-> tcs]

\* A tool-call fragment: index is NoIndex when the fragment has no "index" key;
\* id, name and arguments are None when the fragment does not carry them.
NoIndex == -1
Fragment(index, id, name, arguments) ==
    [index |-> index, id |-> id, name |-> name, arguments |-> arguments]

\* {"id": "", "name": "", "arguments": ""}
BlankCall == [id |-> <<>>, name |-> <<>>, arguments |-> <<>>]

\* idx = tc.get("index", 0)
FragIndex(tc) == IF tc.index = NoIndex THEN 0 ELSE tc.index

\* Mutant of AppendContent: the fragment put in front of the buffer.
PrependContent(buf, text) == text \o buf

\* content_buffer += delta["content"]
AppendContent(buf, text) == buf \o text

\* The body of "for tc in delta['tool_calls']" for one fragment: the list after
\* it, or ok = FALSE when tool_calls[idx] raises IndexError.
ApplyFragment(calls, tc) ==
    LET idx == FragIndex(tc)
        grown == IF idx >= Len(calls) THEN Append(calls, BlankCall) ELSE calls
    IN  IF idx >= Len(grown)
        THEN [ok |-> FALSE, calls |-> grown]
        ELSE LET old == grown[idx + 1]
                 new == [id |-> IF tc.id # None THEN tc.id ELSE old.id,
                         name |-> IF tc.name # None THEN tc.name ELSE old.name,
                         arguments |-> IF tc.arguments # None
                                       THEN old.arguments \o tc.arguments
                                       ELSE old.arguments]
             IN  [ok |-> TRUE, calls |-> [grown EXCEPT ![idx + 1] = new]]

\* The whole "for tc in delta['tool_calls']" loop.
RECURSIVE ApplyFragments(_, _)
ApplyFragments(calls, tcs) ==
    IF tcs = <<>> THEN [ok |-> TRUE, calls |-> calls]
    ELSE LET one == ApplyFragment(calls, Head(tcs))
         IN  IF one.ok THEN ApplyFragments(one.calls, Tail(tcs)) ELSE one

Event(type, text, calls) == [type |-> type, text |-> text, calls |-> calls]

\* The two yields after the loop.
FinalEvents(calls, buf) ==
    (IF calls # <<>> THEN <<Event("tool_calls", <<>>, calls)>> ELSE <<>>)
        \o <<Event("done", buf, <<>>)>>

\* ---- inputs ----
MaxLines == 3       \* lines of one response body
TA == <<"a">>
TB == <<"b">>

FragmentSet ==
    { Fragment(0, <<"x">>, <<"f">>, <<>>),
      Fragment(0, None, None, TA),
      Fragment(NoIndex, None, None, TB),
      Fragment(1, <<"y">>, <<"g">>, TB),
      Fragment(1, None, None, TA),
      Fragment(2, <<"z">>, <<"h">>, TA) }

LineSet ==
    { Line("other", "-", None, <<>>),
      Line("sentinel", "-", None, <<>>),
      Line("unparseable", "-", None, <<>>),
      Line("nondict", "-", None, <<>>),
      Line("chunk", "empty", None, <<>>),
      Line("chunk", "missing", None, <<>>),
      Line("chunk", "one", None, <<>>),
      Line("chunk", "one", <<>>, <<>>),
      Line("chunk", "one", TA, <<>>),
      Line("chunk", "one", TB, <<>>),
      Line("chunk", "one", TA, <<Fragment(0, <<"x">>, <<"f">>, <<>>)>>),
      Line("chunk", "one", None,
           <<Fragment(1, <<"y">>, <<"g">>, TB), Fragment(0, <<"x">>, <<"f">>, <<>>)>>) }
    \cup { Line("chunk", "one", None, <<f>>) : f \in FragmentSet }

StreamInit ==
    /\ content_buffer = <<>>
    /\ tool_calls = <<>>
    /\ events = <<>>
    /\ consumed = <<>>
    /\ stream = "iter"

\* One turn of "for line in resp.iter_lines()".
ReadLine(line) ==
    /\ stream = "iter"
    /\ Len(consumed) < MaxLines
    /\ consumed' = Append(consumed, line)
    /\ StreamOnly
    /\ IF line.kind = "other"
       THEN UNCHANGED <<content_buffer, tool_calls, events, stream>>      \* continue
       ELSE IF line.kind = "sentinel"
       THEN /\ events' = events \o FinalEvents(tool_calls, content_buffer) \* break
            /\ stream' = "done"
            /\ UNCHANGED <<content_buffer, tool_calls>>
       ELSE IF line.kind = "unparseable"
       THEN UNCHANGED <<content_buffer, tool_calls, events, stream>>      \* except: pass
       ELSE IF line.kind = "nondict" \/ line.choices = "empty"
       THEN /\ stream' = "raised"             \* AttributeError / IndexError
            /\ UNCHANGED <<content_buffer, tool_calls, events>>
       ELSE LET hasText == line.choices = "one" /\ Truthy(line.content)
                tcs == IF line.choices = "one" THEN line.tool_calls ELSE <<>>
                got == ApplyFragments(tool_calls, tcs)
            IN  /\ content_buffer' = IF hasText
                                     THEN AppendContent(content_buffer, line.content)
                                     ELSE content_buffer
                /\ events' = IF hasText
                             THEN Append(events, Event("content", line.content, <<>>))
                             ELSE events
                /\ tool_calls' = got.calls
                /\ stream' = IF got.ok THEN "iter" ELSE "raised"   \* IndexError

\* resp.iter_lines() is exhausted: the two yields after the loop.
EndOfStream ==
    /\ stream = "iter"
    /\ events' = events \o FinalEvents(tool_calls, content_buffer)
    /\ stream' = "done"
    /\ UNCHANGED <<content_buffer, tool_calls, consumed>>
    /\ StreamOnly

StreamNext ==
    \/ \E line \in LineSet : ReadLine(line)
    \/ EndOfStream

(***************************************************************************)
(* Capability Protocol Client                                              *)
(***************************************************************************)
\* ---- inputs ----
MaxObjs == 2        \* MCPServer objects created (add_server calls)
MaxProcs == 2       \* child processes spawned (and reader threads started)
MaxCalls == 1       \* tools/call and resources/read requests sent
MaxFaults == 1      \* waits that end on their timeout plus notifications sent

N_A == <<"A">>
N_B == <<"B">>
Names == {N_A, N_B}
NameOrder == <<N_A, N_B>>

Tool_t == <<"t">>
Tool_s == <<"s">>
Uri_u == <<"u">>
Uri_v == <<"v">>
Uris == {Uri_u, Uri_v}

\* What each provider reports to tools/list and resources/list.
AdvertisedTools(name) == IF name = N_A THEN <<Tool_t>> ELSE <<Tool_t, Tool_s>>
AdvertisedResources(name) == IF name = N_A THEN <<Uri_u>> ELSE <<Uri_u, Uri_v>>

\* An inbound message: id is 0 when the message has no "id"; kind is "result"
\* ("result" key), "error" ("error" key) or "notif" (neither); tools and
\* resources are result["tools"] and result["resources"] (<<>> when absent).
\* proc is history: the child that wrote the message (0: none).
Msg(id, kind, tools, resources) ==
    [id |-> id, kind |-> kind, tools |-> tools, resources |-> resources, proc |-> 0]

\* The message as child p wrote it to its stdout.
WrittenBy(p, msg) == [msg EXCEPT !.proc = p]

\* _wait_response returned None.
NoMsg == Msg(0, "none", <<>>, <<>>)

\* A request written to a child's stdin.
Request(id, method) == [id |-> id, method |-> method]

\* A notification written to a child's stdin: a message without "id".
Notification(method) == [id |-> 0, method |-> method]

\* subprocess.Popen(...) for server object o of connection name: the child's
\* unanswered requests (inbox), the lines it has written and the client's
\* reader has not read yet (pipe), and as history every line the client wrote
\* to its stdin (log).
Popen(name, o) ==
    [owner |-> name, obj |-> o, alive |-> TRUE, inbox |-> {}, pipe |-> <<>>,
     log |-> <<>>]

MCPTool(name, server_name) == [name |-> name, server_name |-> server_name]
MCPResource(uri, server_name) == [uri |-> uri, server_name |-> server_name]

\* MCPServer(name=..., command=...): process None, no tools, _request_id 0,
\* an empty _response_queue of its own.
MCPServer(name) ==
    [name |-> name, process |-> 0, tools |-> <<>>, resources |-> <<>>,
     request_id |-> 0, queue |-> <<>>]

\* f"{server_name}/{tool.name}"
ToolKey(server_name, tool_name) == server_name \o <<"/">> \o tool_name

\* dict operations
EmptyMap == [k \in {} |-> 0]
Put(d, k, v) == [x \in (DOMAIN d) \cup {k} |-> IF x = k THEN v ELSE d[x]]
Pop(d, k) == [x \in (DOMAIN d) \ {k} |-> d[x]]

RECURSIVE PopAll(_, _)
PopAll(d, keys) == IF keys = <<>> THEN d ELSE PopAll(Pop(d, Head(keys)), Tail(keys))

FgIdle == [pc |-> "idle", name |-> <<>>, obj |-> 0, reqid |-> 0,
           init |-> "none", before |-> EmptyMap]

\* connect(name) returned ok. init tells what its wait for the initialize
\* response had returned: "none" (connect never got to the wait), "timeout"
\* (None), "matched" (the message with the initialize request's id) or "other"
\* (any other message); before is all_tools as it was when connect was called.
Ret(name, ok, init, before) ==
    [op |-> "connect", name |-> name, ok |-> ok, init |-> init, before |-> before]

\* Another operation ran since.
RetNone == [op |-> "none", name |-> <<>>, ok |-> FALSE, init |-> "none",
            before |-> EmptyMap]

\* What a wait for the request with id reqid got.
WaitOutcome(response, reqid) ==
    IF response.kind = "none" THEN "timeout"
    ELSE IF response.id = reqid THEN "matched" ELSE "other"

\* MCPClient.__init__ (and, before get_mcp_client() is first called, no client).
McpInit ==
    /\ servers = [n \in Names |-> 0]
    /\ sobj = <<>>
    /\ procs = <<>>
    /\ readers = <<>>
    /\ all_tools = EmptyMap
    /\ all_resources = EmptyMap
    /\ fg = FgIdle
    /\ ret = RetNone
    /\ ncalls = 0
    /\ nfaults = 0

\* _send_request(server, method, params), on server object o of objs: the id
\* taken, the objects after it, and the processes after the write (a write to
\* a missing or dead process raises inside the try and is only printed).
SendId(objs, o) == objs[o].request_id + 1
SendObjs(objs, o) == [objs EXCEPT ![o].request_id = @ + 1]
SendProcs(objs, ps, o, method) ==
    LET p == objs[o].process
    IN  IF p # 0 /\ ps[p].alive
        THEN [ps EXCEPT ![p].inbox = @ \cup {Request(SendId(objs, o), method)},
                        ![p].log = Append(@, Request(SendId(objs, o), method))]
        ELSE ps

\* _send_notification(server, method, params): no id is taken; the write to a
\* missing or dead process is only printed.
NotifyProcs(objs, ps, o, method) ==
    LET p == objs[o].process
    IN  IF p # 0 /\ ps[p].alive
        THEN [ps EXCEPT ![p].log = Append(@, Notification(method))]
        ELSE ps

\* _wait_response(server, timeout): the head of the queue, or None when the
\* queue stayed empty until the timeout.
WaitResponse(objs, o) == IF objs[o].queue # <<>> THEN Head(objs[o].queue) ELSE NoMsg
WaitObjs(objs, o) == IF objs[o].queue # <<>> THEN [objs EXCEPT ![o].queue = Tail(@)] ELSE objs

\* The wait on server object o returns now: with the message at the head of
\* the queue, or, the queue being empty, because the timeout has expired.
WaitReturns(o) ==
    /\ sobj[o].queue = <<>> => nfaults < MaxFaults
    /\ nfaults' = IF sobj[o].queue = <<>> THEN nfaults + 1 ELSE nfaults

\* disconnect(server_name) on the client state st = [servers, sobj, procs,
\* all_tools, all_resources]: the state after it.
RECURSIVE ToolKeys(_, _)
ToolKeys(server_name, tools) ==
    IF tools = <<>> THEN <<>>
    ELSE <<ToolKey(server_name, Head(tools).name)>> \o ToolKeys(server_name, Tail(tools))

RECURSIVE ResourceUris(_)
ResourceUris(resources) ==
    IF resources = <<>> THEN <<>>
    ELSE <<Head(resources).uri>> \o ResourceUris(Tail(resources))

ClientState(sv, objs, ps, at, ar) ==
    [servers |-> sv, sobj |-> objs, procs |-> ps, all_tools |-> at, all_resources |-> ar]

\* Mutant of disconnect: the request counter starts again with the next connect.
disconnect_resetting_ids(st, server_name) ==
    LET o == st.servers[server_name] IN
    IF o = 0 THEN st
    ELSE LET server == st.sobj[o]
             p == server.process
         IN  [st EXCEPT
                !.all_tools = PopAll(@, ToolKeys(server_name, server.tools)),
                !.all_resources = PopAll(@, ResourceUris(server.resources)),
                !.procs = IF p # 0 THEN [@ EXCEPT ![p].alive = FALSE, ![p].inbox = {}]
                          ELSE @,
                !.sobj = [@ EXCEPT ![o].process = 0, ![o].tools = <<>>,
                                   ![o].resources = <<>>, ![o].request_id = 0]]

disconnect(st, server_name) ==
    LET o == st.servers[server_name] IN
    IF o = 0 THEN st
    ELSE LET server == st.sobj[o]
             p == server.process
         IN  [st EXCEPT
                !.all_tools = PopAll(@, ToolKeys(server_name, server.tools)),
                !.all_resources = PopAll(@, ResourceUris(server.resources)),
                !.procs = IF p # 0 THEN [@ EXCEPT ![p].alive = FALSE, ![p].inbox = {}]
                          ELSE @,
                !.sobj = [@ EXCEPT ![o].process = 0, ![o].tools = <<>>,
                                   ![o].resources = <<>>]]

\* disconnect_all(): disconnect(name) for every name in self.servers.
RECURSIVE disconnect_each(_, _)
disconnect_each(st, names) ==
    IF names = <<>> THEN st
    ELSE disconnect_each(disconnect(st, Head(names)), Tail(names))

Current == ClientState(servers, sobj, procs, all_tools, all_resources)

Install(st) ==
    /\ servers' = st.servers
    /\ sobj' = st.sobj
    /\ procs' = st.procs
    /\ all_tools' = st.all_tools
    /\ all_resources' = st.all_resources

\* ---- the calling thread ----

\* add_server(name, command, args, env)
AddServer(name) ==
    /\ fg.pc = "idle"
    /\ Len(sobj) < MaxObjs
    /\ sobj' = Append(sobj, MCPServer(name))
    /\ servers' = [servers EXCEPT ![name] = Len(sobj) + 1]
    /\ ret' = RetNone
    /\ UNCHANGED <<procs, readers, all_tools, all_resources, fg, ncalls, nfaults>>
    /\ McpOnly

\* connect(server_name) when the name is not in self.servers: return False.
ConnectUnknown(name) ==
    /\ fg.pc = "idle"
    /\ servers[name] = 0
    /\ ret' = Ret(name, FALSE, "none", all_tools)
    /\ UNCHANGED <<servers, sobj, procs, readers, all_tools, all_resources, fg, ncalls, nfaults>>
    /\ McpOnly

\* connect(server_name) when Popen raises: the except branch disconnects and
\* returns False.
ConnectLaunchFails(name) ==
    /\ fg.pc = "idle"
    /\ servers[name] # 0
    /\ Install(disconnect(Current, name))
    /\ ret' = Ret(name, FALSE, "none", all_tools)
    /\ UNCHANGED <<readers, fg, ncalls, nfaults>>
    /\ McpOnly

\* connect(server_name) up to the first wait: spawn the child, start the reader
\* thread, send initialize.
ConnectStart(name) ==
    /\ fg.pc = "idle"
    /\ servers[name] # 0
    /\ Len(procs) < MaxProcs
    /\ LET o == servers[name]
           p == Len(procs) + 1
           spawned == [sobj EXCEPT ![o].process = p]
           started == Append(procs, Popen(name, o))
       IN  /\ sobj' = SendObjs(spawned, o)
           /\ procs' = SendProcs(spawned, started, o, "initialize")
           /\ readers' = Append(readers, [obj |-> o, pc |-> "loop", proc |-> 0])
           /\ fg' = [pc |-> "wait_init", name |-> name, obj |-> o,
                     reqid |-> SendId(spawned, o), init |-> "none",
                     before |-> all_tools]
    /\ ret' = RetNone
    /\ UNCHANGED <<servers, all_tools, all_resources, ncalls, nfaults>>
    /\ McpOnly

\* connect(): if not response or "error" in response
InitFailed(response) == response = NoMsg \/ response.kind = "error"

\* connect() from the wait for the initialize response: on failure disconnect
\* and return False; otherwise send the initialized notification and the
\* tools/list request of _discover_tools.
ConnectInitResponse ==
    /\ fg.pc = "wait_init"
    /\ WaitReturns(fg.obj)
    /\ LET o == fg.obj
           response == WaitResponse(sobj, o)
           taken == WaitObjs(sobj, o)
       IN  /\ IF InitFailed(response)
              THEN /\ Install(disconnect(
                          ClientState(servers, taken, procs, all_tools, all_resources),
                          fg.name))
                   /\ ret' = Ret(fg.name, FALSE, WaitOutcome(response, fg.reqid), fg.before)
                   /\ fg' = FgIdle
              ELSE /\ sobj' = SendObjs(taken, o)
                   /\ procs' = SendProcs(taken,
                                         NotifyProcs(taken, procs, o,
                                                     "notifications/initialized"),
                                         o, "tools/list")
                   /\ fg' = [fg EXCEPT !.pc = "wait_tools", !.reqid = SendId(taken, o),
                                       !.init = WaitOutcome(response, fg.reqid)]
                   /\ UNCHANGED <<servers, all_tools, all_resources, ret>>
    /\ UNCHANGED <<readers, ncalls>>
    /\ McpOnly

\* The "for t in tools" loop of _discover_tools.
RECURSIVE AddTools(_, _, _, _)
AddTools(objs, at, o, tools) ==
    IF tools = <<>> THEN [sobj |-> objs, all_tools |-> at]
    ELSE LET tool == MCPTool(Head(tools), objs[o].name)
         IN  AddTools([objs EXCEPT ![o].tools = Append(@, tool)],
                      Put(at, ToolKey(objs[o].name, tool.name), tool),
                      o, Tail(tools))

\* The "for r in resources" loop of _discover_resources.
RECURSIVE AddResources(_, _, _, _)
AddResources(objs, ar, o, uris) ==
    IF uris = <<>> THEN [sobj |-> objs, all_resources |-> ar]
    ELSE LET resource == MCPResource(Head(uris), objs[o].name)
         IN  AddResources([objs EXCEPT ![o].resources = Append(@, resource)],
                          Put(ar, resource.uri, resource),
                          o, Tail(uris))

\* _discover_tools from its wait on, then the resources/list request of
\* _discover_resources.
ConnectToolsResponse ==
    /\ fg.pc = "wait_tools"
    /\ WaitReturns(fg.obj)
    /\ LET o == fg.obj
           response == WaitResponse(sobj, o)
           taken == WaitObjs(sobj, o)
           added == IF response.kind = "result"
                    THEN AddTools(taken, all_tools, o, response.tools)
                    ELSE [sobj |-> taken, all_tools |-> all_tools]
       IN  /\ all_tools' = added.all_tools
           /\ sobj' = SendObjs(added.sobj, o)
           /\ procs' = SendProcs(added.sobj, procs, o, "resources/list")
           /\ fg' = [fg EXCEPT !.pc = "wait_res", !.reqid = SendId(added.sobj, o)]
    /\ UNCHANGED <<servers, readers, all_resources, ret, ncalls>>
    /\ McpOnly

\* _discover_resources from its wait on; connect() returns True.
ConnectResourcesResponse ==
    /\ fg.pc = "wait_res"
    /\ WaitReturns(fg.obj)
    /\ LET o == fg.obj
           response == WaitResponse(sobj, o)
           taken == WaitObjs(sobj, o)
           added == IF response.kind = "result"
                    THEN AddResources(taken, all_resources, o, response.resources)
                    ELSE [sobj |-> taken, all_resources |-> all_resources]
       IN  /\ all_resources' = added.all_resources
           /\ sobj' = added.sobj
           /\ ret' = Ret(fg.name, TRUE, fg.init, fg.before)
           /\ fg' = FgIdle
    /\ UNCHANGED <<servers, procs, readers, all_tools, ncalls>>
    /\ McpOnly

\* disconnect(server_name)
Disconnect(name) ==
    /\ fg.pc = "idle"
    /\ Install(disconnect(Current, name))
    /\ ret' = RetNone
    /\ UNCHANGED <<readers, fg, ncalls, nfaults>>
    /\ McpOnly

\* disconnect_all()
DisconnectAll ==
    /\ fg.pc = "idle"
    /\ Install(disconnect_each(Current, NameOrder))
    /\ ret' = RetNone
    /\ UNCHANGED <<readers, fg, ncalls, nfaults>>
    /\ McpOnly

\* call_tool(server_name, tool_name, arguments) up to its wait. The tool name
\* and the arguments travel inside the request and decide nothing in the client.
CallTool(name) ==
    /\ fg.pc = "idle"
    /\ IF servers[name] = 0 \/ sobj[servers[name]].process = 0
       THEN UNCHANGED <<sobj, procs, fg, ncalls>>                  \* return {"error": ...}
       ELSE LET o == servers[name] IN
            /\ ncalls < MaxCalls
            /\ ncalls' = ncalls + 1
            /\ sobj' = SendObjs(sobj, o)
            /\ procs' = SendProcs(sobj, procs, o, "tools/call")
            /\ fg' = [FgIdle EXCEPT !.pc = "wait_call", !.name = name, !.obj = o,
                                    !.reqid = SendId(sobj, o)]
    /\ ret' = RetNone
    /\ UNCHANGED <<servers, readers, all_tools, all_resources, nfaults>>
    /\ McpOnly

\* get_resource(uri) up to its wait.
GetResource(uri) ==
    /\ fg.pc = "idle"
    /\ LET owner == IF uri \in DOMAIN all_resources
                    THEN all_resources[uri].server_name ELSE <<>>
           o == IF owner \in Names THEN servers[owner] ELSE 0
       IN  IF o = 0 \/ sobj[o].process = 0
           THEN UNCHANGED <<sobj, procs, fg, ncalls>>               \* return None
           ELSE /\ ncalls < MaxCalls
                /\ ncalls' = ncalls + 1
                /\ sobj' = SendObjs(sobj, o)
                /\ procs' = SendProcs(sobj, procs, o, "resources/read")
                /\ fg' = [FgIdle EXCEPT !.pc = "wait_read", !.name = uri, !.obj = o,
                                        !.reqid = SendId(sobj, o)]
    /\ ret' = RetNone
    /\ UNCHANGED <<servers, readers, all_tools, all_resources, nfaults>>
    /\ McpOnly

\* call_tool / get_resource from the wait on: the result when the message got
\* has a "result" key, an error or None otherwise.
CallResponse ==
    /\ fg.pc \in {"wait_call", "wait_read"}
    /\ WaitReturns(fg.obj)
    /\ LET o == fg.obj
           response == WaitResponse(sobj, o)
       IN  /\ sobj' = WaitObjs(sobj, o)
           /\ fg' = FgIdle
    /\ UNCHANGED <<servers, procs, readers, all_tools, all_resources, ret, ncalls>>
    /\ McpOnly

\* ---- the providers (child processes) ----

\* A provider answers one of the requests it has read, in any order, with a
\* result or, for the requests of connect(), with an error.
ProviderReply(p, kind) ==
    /\ p <= Len(procs)
    /\ procs[p].alive
    /\ \E req \in procs[p].inbox :
         LET msg == IF kind = "error" THEN Msg(req.id, "error", <<>>, <<>>)
                    ELSE Msg(req.id, "result",
                             IF req.method = "tools/list"
                             THEN AdvertisedTools(procs[p].owner) ELSE <<>>,
                             IF req.method = "resources/list"
                             THEN AdvertisedResources(procs[p].owner) ELSE <<>>)
         IN  /\ kind = "error" =>
                    req.method \in {"initialize", "tools/list", "resources/list"}
             /\ procs' = [procs EXCEPT ![p].inbox = @ \ {req},
                                       ![p].pipe = Append(@, WrittenBy(p, msg))]
    /\ UNCHANGED <<servers, sobj, readers, all_tools, all_resources, fg, ret, ncalls, nfaults>>
    /\ McpOnly

\* A provider writes a notification (a message without id).
ProviderNotify(p) ==
    /\ p <= Len(procs)
    /\ procs[p].alive
    /\ nfaults < MaxFaults
    /\ nfaults' = nfaults + 1
    /\ procs' = [procs EXCEPT ![p].pipe = Append(@, WrittenBy(p, Msg(0, "notif", <<>>, <<>>)))]
    /\ UNCHANGED <<servers, sobj, readers, all_tools, all_resources, fg, ret, ncalls>>
    /\ McpOnly

\* ---- the reader threads (_read_responses) ----

\* while server.process and server.process.poll() is None: the thread ends, or
\* goes on to readline() on the stdout of the server object's current process.
ReaderLoop(r) ==
    /\ r <= Len(readers)
    /\ readers[r].pc = "loop"
    /\ LET p == sobj[readers[r].obj].process
       IN  readers' = IF p # 0 /\ procs[p].alive
                      THEN [readers EXCEPT ![r].pc = "read", ![r].proc = p]
                      ELSE [readers EXCEPT ![r].pc = "end", ![r].proc = 0]
    /\ UNCHANGED <<servers, sobj, procs, all_tools, all_resources, fg, ret, ncalls, nfaults>>
    /\ McpOnly

\* readline() returns: a line, which is parsed and put on the server object's
\* queue, or end of file once the child is dead and its pipe is drained.
ReaderRead(r) ==
    /\ r <= Len(readers)
    /\ readers[r].pc = "read"
    /\ LET p == readers[r].proc
           o == readers[r].obj
       IN  IF procs[p].pipe # <<>>
           THEN /\ procs' = [procs EXCEPT ![p].pipe = Tail(@)]
                /\ sobj' = [sobj EXCEPT ![o].queue = Append(@, Head(procs[p].pipe))]
                /\ readers' = [readers EXCEPT ![r].pc = "loop", ![r].proc = 0]
           ELSE /\ ~procs[p].alive
                /\ readers' = [readers EXCEPT ![r].pc = "end", ![r].proc = 0]
                /\ UNCHANGED <<procs, sobj>>
    /\ UNCHANGED <<servers, all_tools, all_resources, fg, ret, ncalls, nfaults>>
    /\ McpOnly

McpNext ==
    \/ \E name \in Names : AddServer(name)
    \/ \E name \in Names : ConnectUnknown(name)
    \/ \E name \in Names : ConnectLaunchFails(name)
    \/ \E name \in Names : ConnectStart(name)
    \/ ConnectInitResponse
    \/ ConnectToolsResponse
    \/ ConnectResourcesResponse
    \/ \E name \in Names : Disconnect(name)
    \/ DisconnectAll
    \/ \E name \in Names : CallTool(name)
    \/ \E uri \in Uris : GetResource(uri)
    \/ CallResponse
    \/ \E p \in 1..MaxProcs, kind \in {"result", "error"} : ProviderReply(p, kind)
    \/ \E p \in 1..MaxProcs : ProviderNotify(p)
    \/ \E r \in 1..MaxProcs : ReaderLoop(r)
    \/ \E r \in 1..MaxProcs : ReaderRead(r)

(***************************************************************************)
(* Orchestration Loop                                                      *)
(***************************************************************************)
\* s.startswith(prefix)
StartsWith(s, prefix) == Len(s) >= Len(prefix) /\ SubSeq(s, 1, Len(prefix)) = prefix

\* The position of the first ch in s, or 0 (s.find(ch) + 1).
Find(s, ch) ==
    IF \E i \in 1..Len(s) : s[i] = ch
    THEN CHOOSE i \in 1..Len(s) : s[i] = ch /\ \A j \in 1..(i - 1) : s[j] # ch
    ELSE 0

\* ---- json.loads / json.dumps on the texts the loop handles ----
Quote == "\""
Digits == {"0","1","2","3","4","5","6","7","8","9"}

\* The argument names the gate and the handlers look up, as dict keys.
KeyNames == {"path", "file", "save_path", "command", "content", "old", "new"}
KeyText(k) ==
    IF k = "path" THEN <<"p","a","t","h">>
    ELSE IF k = "file" THEN <<"f","i","l","e">>
    ELSE IF k = "save_path" THEN <<"s","a","v","e","_","p","a","t","h">>
    ELSE IF k = "command" THEN <<"c","o","m","m","a","n","d">>
    ELSE IF k = "old" THEN <<"o","l","d">>
    ELSE IF k = "new" THEN <<"n","e","w">>
    ELSE <<"c","o","n","t","e","n","t">>

\* A JSON string literal "..." without escapes: its text, or None.
JsonString(s) ==
    IF Len(s) >= 2 /\ s[1] = Quote /\ s[Len(s)] = Quote
       /\ \A i \in 2..(Len(s) - 1) : s[i] \notin {Quote, "\\"}
    THEN SubSeq(s, 2, Len(s) - 1)
    ELSE None

\* The element of a one-element set; { e(x) : x \in {v} } computes v once and
\* names it x, as an assignment to a local does.
Only(S) == CHOOSE v \in S : TRUE

\* The dict key for a key text ("?" for a name outside KeyNames).
KeyName(key) ==
    IF \E k \in KeyNames : KeyText(k) = key
    THEN CHOOSE k \in KeyNames : KeyText(k) = key ELSE "?"

\* One member  "k":"v" : its key text and its value text, None for each that
\* is not a string literal.
JsonMember(m) ==
    Only({ IF colon = 0 THEN [key |-> None, val |-> None]
           ELSE [key |-> JsonString(SubSeq(m, 1, colon - 1)),
                 val |-> JsonString(SubSeq(m, colon + 1, Len(m)))]
           : colon \in {Find(m, ":")} })

\* The members  "k":"v","k":"v",...  of a JSON object whose values are
\* strings: ok with the dict, or not ok when the text is not of that form.
RECURSIVE JsonMembers(_, _)
JsonMembers(s, d) ==
    Only({ Only({ IF member.key = None \/ member.val = None THEN [ok |-> FALSE, d |-> d]
                  ELSE IF comma = 0
                  THEN [ok |-> TRUE, d |-> Put(d, KeyName(member.key), member.val)]
                  ELSE JsonMembers(SubSeq(s, comma + 1, Len(s)),
                                   Put(d, KeyName(member.key), member.val))
                  : member \in {JsonMember(IF comma = 0 THEN s
                                           ELSE SubSeq(s, 1, comma - 1))} })
           : comma \in {Find(s, ",")} })

\* json.loads(s): kind "dict" with the dict as value; kind "list", "int",
\* "null" or "str" for a text that parses to something else; kind
\* "JSONDecodeError" when json.loads raises.
Parsed(kind, value) == [kind |-> kind, value |-> value]

json_loads(s) ==
    LET n == Len(s) IN
    IF n >= 2 /\ s[1] = "{" /\ s[n] = "}"
    THEN IF n = 2 THEN Parsed("dict", [k \in {} |-> <<>>])
         ELSE LET m == JsonMembers(SubSeq(s, 2, n - 1), [k \in {} |-> <<>>])
              IN  IF m.ok THEN Parsed("dict", m.d) ELSE Parsed("JSONDecodeError", <<>>)
    ELSE IF n >= 2 /\ s[1] = "[" /\ s[n] = "]"
            /\ \A i \in 2..(n - 1) : s[i] \in Digits
    THEN Parsed("list", SubSeq(s, 2, n - 1))
    ELSE IF n >= 1 /\ \A i \in 1..n : s[i] \in Digits
            /\ (n = 1 \/ s[1] # "0")
    THEN Parsed("int", s)
    ELSE IF s = <<"n","u","l","l">> THEN Parsed("null", <<>>)
    ELSE IF JsonString(s) # None THEN Parsed("str", JsonString(s))
    ELSE Parsed("JSONDecodeError", <<>>)

\* Python values handed to json.dumps / str: a str, or a dict of one entry.
Str(text) == [type |-> "str", text |-> text, key |-> <<>>, value |-> <<>>]
Dict1(key, value) == [type |-> "dict", text |-> <<>>, key |-> key, value |-> value]

\* json.dumps(v)
RECURSIVE json_dumps(_)
json_dumps(v) ==
    IF v.type = "dict"
    THEN <<"{", Quote>> \o v.key \o <<Quote, ":", " ">> \o json_dumps(v.value) \o <<"}">>
    ELSE <<Quote>> \o v.text \o <<Quote>>

\* ---- tools.py: the handlers and run_tool ----
T_edit == <<"e","d","i","t">>
T_nope == <<"n","o","p","e">>

\* TOOLS: the registered handlers this model exercises.
TOOLS == {T_read, T_write, T_edit, T_bash}

\* What a handler did: it returned text (failed: the operation it stands for
\* did not succeed), raised an Exception with message text, or raised
\* KeyboardInterrupt.
Returned(text, failed) == [kind |-> "return", text |-> text, failed |-> failed]
Raised(text) == [kind |-> "raise", text |-> text, failed |-> TRUE]
Interrupted == [kind |-> "interrupt", text |-> <<>>, failed |-> TRUE]

\* What the machine does to a handler: the operation works, it fails (file
\* unreadable or unwritable, command exits non-zero), or the user presses
\* Ctrl-C while it runs.
Envs == {"ok", "fail", "interrupt"}

\* args["k"] on a dict without k raises KeyError('k').
KeyError(k) == Raised(<<"'">> \o KeyText(k) \o <<"'">>)

tool_read(args, env) ==
    IF "path" \notin DOMAIN args THEN KeyError("path")
    ELSE IF env = "fail" THEN Returned(<<"e","r","r","o","r"," ","r","e","a","d","i","n","g"," ","f","i","l","e",":"," ","e">>, TRUE)
    ELSE Returned(<<" "," "," ","1","|"," ","x">>, FALSE)

tool_write(args, env) ==
    IF "path" \notin DOMAIN args THEN KeyError("path")
    ELSE IF env = "fail" THEN Raised(<<"e">>)
    ELSE IF "content" \notin DOMAIN args THEN KeyError("content")
    ELSE Returned(<<"o","k",":"," ","w","r","o","t","e"," ","1"," ","b","y","t","e","s"," ","t","o"," ">> \o args["path"], FALSE)

tool_edit(args, env) ==
    IF "path" \notin DOMAIN args THEN KeyError("path")
    ELSE IF env = "fail" THEN Returned(<<"e","r","r","o","r",":"," ","f","i","l","e"," ","n","o","t"," ","f","o","u","n","d",":"," ">> \o args["path"], TRUE)
    ELSE IF "old" \notin DOMAIN args THEN KeyError("old")
    ELSE IF "new" \notin DOMAIN args THEN KeyError("new")
    ELSE Returned(<<"o","k",":"," ","r","e","p","l","a","c","e","d"," ","1"," ","o","c","c","u","r","r","e","n","c","e","(","s",")">>, FALSE)

tool_bash(args, env) ==
    IF "command" \notin DOMAIN args THEN Returned(<<"e","r","r","o","r",":"," ","'","c","o","m","m","a","n","d","'">>, TRUE)
    ELSE IF env = "interrupt" THEN Interrupted
    ELSE IF env = "fail" THEN Returned(<<"(","e","x","i","t"," ","c","o","d","e",":"," ","1",")">>, TRUE)
    ELSE Returned(<<"(","n","o"," ","o","u","t","p","u","t",")">>, FALSE)

\* TOOLS[name].function(args)
Handler(name, args, env) ==
    IF name = T_read THEN tool_read(args, env)
    ELSE IF name = T_write THEN tool_write(args, env)
    ELSE IF name = T_edit THEN tool_edit(args, env)
    ELSE tool_bash(args, env)

\* run_tool(name, args, session_id) with a session id given: what it returned
\* or raised, and whether db.track_file_change recorded a change
\* (tracker_ok: the tracker call does not raise).
RunResult(kind, text, failed, tracked) ==
    [kind |-> kind, text |-> text, failed |-> failed, tracked |-> tracked]

run_tool(name, args, env, tracker_ok) ==
    IF name \notin TOOLS
    THEN RunResult("return", <<"e","r","r","o","r",":"," ","u","n","k","n","o","w","n"," ","t","o","o","l"," ","'">> \o name \o <<"'">>, TRUE, FALSE)
    ELSE LET h == Handler(name, args, env) IN
         IF h.kind = "return"
         THEN RunResult("return", h.text, h.failed,
                        name \in {T_write, T_edit} /\ tracker_ok)
         ELSE IF h.kind = "raise"
         THEN RunResult("return", <<"e","r","r","o","r",":"," ">> \o h.text, TRUE, FALSE)
         ELSE RunResult("interrupt", <<>>, TRUE, FALSE)

\* ---- mcp.py: what MCPClient.call_tool returns ----
\* The capability client is this loop's environment: remote says which of
\* call_tool's return statements is taken.
Remotes == {"unknown", "not_connected", "result", "error", "no_response"}

call_tool(server_name, tool_name, arguments, remote) ==
    IF remote = "unknown"
    THEN Dict1(<<"e","r","r","o","r">>, Str(<<"U","n","k","n","o","w","n"," ","s","e","r","v","e","r",":"," ">> \o server_name))
    ELSE IF remote = "not_connected"
    THEN Dict1(<<"e","r","r","o","r">>, Str(<<"S","e","r","v","e","r"," ">> \o server_name \o <<" ","n","o","t"," ","c","o","n","n","e","c","t","e","d">>))
    ELSE IF remote = "result"
    THEN Dict1(<<"c","o","n","t","e","n","t">>, Str(<<"r">>))
    ELSE IF remote = "error"
    THEN Dict1(<<"e","r","r","o","r">>, Dict1(<<"m","e","s","s","a","g","e">>, Str(<<"m">>)))
    ELSE Dict1(<<"e","r","r","o","r">>, Str(<<"N","o"," ","r","e","s","p","o","n","s","e"," ","f","r","o","m"," ","s","e","r","v","e","r">>))

\* tc["name"][4:].split("_", 1)
SplitOnce(s, ch) ==
    LET i == Find(s, ch)
    IN  IF i = 0 THEN <<s>> ELSE <<SubSeq(s, 1, i - 1), SubSeq(s, i + 1, Len(s))>>

McpPrefix == <<"m","c","p","_">>
McpParts(name) == SplitOnce(SubSeq(name, 5, Len(name)), "_")

\* ---- the conversation ----
\* A message of the conversation; tool_calls is <<>> and tool_call_id is None
\* when the dict has no such key.
Message(role, content, tcs, tool_call_id) ==
    [role |-> role, content |-> content, tool_calls |-> tcs, tool_call_id |-> tool_call_id]

\* A row of the messages table, as add_message() stores it.
Row(role, content, tcs, tool_call_id) ==
    [role |-> role, content |-> content, tool_calls |-> tcs, tool_call_id |-> tool_call_id]

\* {"id": tc["id"], "type": "function", "function": {"name": ..., "arguments": ...}}
ApiToolCall(tc) ==
    [id |-> tc.id, type |-> "function",
     function |-> [name |-> tc.name, arguments |-> tc.arguments]]

ApiToolCalls(tcs) == [k \in 1..Len(tcs) |-> ApiToolCall(tcs[k])]

\* Mutant of AssistantMessage: the tool-call branch taken for every response.
AssistantMessageAlwaysCalls(full_content, tcs) ==
    Message("assistant", PyOr(full_content, None), ApiToolCalls(tcs), None)

\* The assistant message agentic_loop appends for a response.
AssistantMessage(full_content, tcs) ==
    IF tcs # <<>>
    THEN Message("assistant", PyOr(full_content, None), ApiToolCalls(tcs), None)
    ELSE Message("assistant", full_content, <<>>, None)

\* Mutant of ToolResult: the result carries no call id.
ToolResultNoId(tc, result) == Message("tool", result, <<>>, None)

\* {"role": "tool", "tool_call_id": tc["id"], "content": result}
ToolResult(tc, result) == Message("tool", result, <<>>, tc.id)

\* get_system_prompt(), abbreviated.
SYSTEM_PROMPT == <<"s","y","s">>

\* The "for event in call_api(...)" loop: full_content and tool_calls after it.
RECURSIVE LoopFold(_, _, _)
LoopFold(evs, full_content, tcs) ==
    IF evs = <<>> THEN [full_content |-> full_content, tool_calls |-> tcs]
    ELSE LET event == Head(evs) IN
         IF event.type = "content"
         THEN LoopFold(Tail(evs), full_content \o event.text, tcs)
         ELSE IF event.type = "tool_calls"
         THEN LoopFold(Tail(evs), full_content, event.calls)
         ELSE LoopFold(Tail(evs), full_content, tcs)

\* The result text for a call the gate refused / the user refused.
BlockedResult(reason) == <<"B","l","o","c","k","e","d",":"," ">> \o reason
SkippedResult == <<"S","k","i","p","p","e","d",":"," ","u","s","e","r"," ","d","e","n","i","e","d"," ","p","e","r","m","i","s","s","i","o","n">>

\* The reason texts of PermissionManager.check() (the rule named in the two
\* "Denied" texts is left out, as in RuleLoop).
ReasonText(reason) ==
    IF reason = "Denied: command matches blocked pattern"
    THEN <<"D","e","n","i","e","d",":"," ","c","o","m","m","a","n","d"," ","m","a","t","c","h","e","s"," ","b","l","o","c","k","e","d"," ","p","a","t","t","e","r","n">>
    ELSE IF reason = "Denied: matches rule" THEN <<"D","e","n","i","e","d",":"," ","m","a","t","c","h","e","s"," ","r","u","l","e">>
    ELSE IF reason = "Strict mode - requires explicit approval"
    THEN <<"S","t","r","i","c","t"," ","m","o","d","e"," ","-"," ","r","e","q","u","i","r","e","s"," ","e","x","p","l","i","c","i","t"," ","a","p","p","r","o","v","a","l">>
    ELSE <<>>

\* str.strip()
Whitespace == {" ", "\n", "\t"}
RECURSIVE LStrip(_)
LStrip(s) == IF s # <<>> /\ Head(s) \in Whitespace THEN LStrip(Tail(s)) ELSE s
RECURSIVE RStrip(_)
RStrip(s) ==
    IF s # <<>> /\ s[Len(s)] \in Whitespace THEN RStrip(SubSeq(s, 1, Len(s) - 1)) ELSE s
Strip(s) == RStrip(LStrip(s))

\* apply_compact(messages, summary)
FirstSystem(msgs) ==
    IF \E k \in 1..Len(msgs) : msgs[k].role = "system"
    THEN <<msgs[CHOOSE k \in 1..Len(msgs) :
                  msgs[k].role = "system" /\ \A j \in 1..(k - 1) : msgs[j].role # "system"]>>
    ELSE <<>>

apply_compact(msgs, summary) ==
    FirstSystem(msgs)
        \o << Message("user",
                      <<"[","P","r","e","v","i","o","u","s"," ","c","o","n","v","e","r","s","a","t","i","o","n"," ","s","u","m","m","a","r","y","]","\n">> \o summary
                          \o <<"\n","\n","[","C","o","n","t","i","n","u","i","n","g"," ","f","r","o","m"," ","h","e","r","e","]">>,
                      <<>>, None),
              Message("assistant",
                      <<"I"," ","u","n","d","e","r","s","t","a","n","d"," ","t","h","e"," ","c","o","n","t","e","x","t","."," ","I","'","m"," ","r","e","a","d","y"," ","t","o"," ","c","o","n","t","i","n","u","e"," ","h","e","l","p","i","n","g",".">>,
                      <<>>, None) >>

\* The rows main writes back after /compact: add_message(role, msg.get("content", "")).
CompactRows(msgs) == [k \in 1..Len(msgs) |-> Row(msgs[k].role, msgs[k].content, <<>>, None)]

\* ---- inputs ----
MaxTurns == 2           \* user messages typed
MaxModelCalls == 1      \* call_api calls before which a response may still carry tool calls

Call(id, name, arguments) == [id |-> id, name |-> name, arguments |-> arguments]

Id1 == <<"1">>
Id2 == <<"2">>
T_mcp_A_t == McpPrefix \o N_A \o <<"_">> \o Tool_t

TcRead == Call(Id1, T_read, <<"{","\"","p","a","t","h","\"",":","\"","/","x","\"","}">>)
TcBash == Call(Id2, T_bash, <<"{","\"","c","o","m","m","a","n","d","\"",":","\"","r","m","\"","}">>)
TcWriteEmpty == Call(Id1, T_write, <<>>)
TcBashBad == Call(Id1, T_bash, <<"{","\"","c","o","m","m","a","n","d","\"">>)
TcReadList == Call(Id1, T_read, <<"[","1","]">>)
TcMcp == Call(Id1, T_mcp_A_t, <<"{","}">>)
TcNope == Call(Id1, T_nope, <<"{","}">>)

\* What call_api(messages, config) does when iterated: the events it yields
\* and then, unless failure is "none", the exception it raises
\* (HTTPStatusError from raise_for_status, or a transport error before or
\* during streaming).
Response(evs, failure) == [events |-> evs, failure |-> failure]

Calls(tcs) == Response(<<Event("tool_calls", <<>>, tcs), Event("done", <<>>, <<>>)>>, "none")

ResponseSet ==
    { Response(<<Event("content", <<"h">>, <<>>), Event("content", <<"i">>, <<>>),
                 Event("done", <<"h","i">>, <<>>)>>, "none"),
      Response(<<Event("done", <<>>, <<>>)>>, "none"),
      Response(<<Event("content", <<"h">>, <<>>),
                 Event("tool_calls", <<>>, <<TcBash>>),
                 Event("done", <<"h">>, <<>>)>>, "none"),
      Calls(<<TcRead, TcBash>>),
      Calls(<<TcWriteEmpty>>),
      Calls(<<TcBashBad, TcBash>>),
      Calls(<<TcReadList, TcBash>>),
      Calls(<<TcMcp, TcBash>>),
      Calls(<<TcNope>>),
      Response(<<>>, "HTTPStatusError"),
      Response(<<Event("content", <<"h">>, <<>>)>>, "ReadError") }

\* What the model answers to the summary request of /compact.
CompactResponseSet ==
    { Response(<<Event("content", <<"s"," ">>, <<>>), Event("done", <<"s"," ">>, <<>>)>>, "none"),
      Response(<<>>, "HTTPStatusError") }

\* The answers typed at the permission prompt; "interrupt" is Ctrl-C or
\* end of input.
Answers == {"y", "a", "n", "interrupt"}

\* Rules installed with add_rule before a turn.
LoopRuleSet == { PermissionRule(T_bash, C_rm, "deny") }

NoCall == Call(<<>>, <<>>, <<>>)

\* main waiting at its prompt; agentic_loop's locals as they were left.
\* History fields: sent is the length of the conversation at the last call of
\* call_api and failure what that call raised; outcome and exc say how the
\* last call of agentic_loop ended; allowed, reason and answer are the gate's
\* and the user's answers for the call at position i.
LoopIdle ==
    [pc |-> "prompt", outcome |-> "none", exc |-> "none", turn |-> 0, sent |-> 0,
     failure |-> "none",
     full_content |-> <<>>, tool_calls |-> <<>>, i |-> 0, tool_results |-> <<>>,
     args |-> NoArgs, allowed |-> "none", reason |-> "none", answer |-> "none"]

LoopInit ==
    /\ messages = <<>>
    /\ db_messages = <<>>
    /\ loop = LoopIdle
    /\ invoked = <<>>
    /\ nmodel = 0

\* ---- main: the interactive loop's commands ----
gateState == <<rules, mode, approved_this_session, alwaysSince>>

\* A regular message typed at the prompt, up to the call of agentic_loop.
UserMessage(text) ==
    /\ loop.pc = "prompt"
    /\ loop.turn < MaxTurns
    /\ LET first == messages = <<>>
           system == IF first THEN <<Message("system", SYSTEM_PROMPT, <<>>, None)>> ELSE <<>>
           sysrow == IF first THEN <<Row("system", SYSTEM_PROMPT, <<>>, None)>> ELSE <<>>
       IN  /\ messages' = messages \o system \o <<Message("user", text, <<>>, None)>>
           /\ db_messages' = db_messages \o sysrow \o <<Row("user", text, <<>>, None)>>
    /\ loop' = [LoopIdle EXCEPT !.pc = "model", !.outcome = "running",
                                !.turn = loop.turn + 1]
    /\ invoked' = <<>>
    /\ UNCHANGED <<nmodel, gateState>>
    /\ LoopOnly

\* /c
Clear ==
    /\ loop.pc = "prompt"
    /\ messages' = <<>>
    /\ db_messages' = <<>>
    /\ UNCHANGED <<loop, invoked, nmodel, gateState>>
    /\ LoopOnly

\* compact_conversation(messages, call_api, config): the summary text.
TooShort == <<"C","o","n","v","e","r","s","a","t","i","o","n"," ","t","o","o"," ","s","h","o","r","t"," ","t","o"," ","c","o","m","p","a","c","t",".">>
compact_conversation(msgs, resp) ==
    IF Len(msgs) < 4 THEN TooShort
    ELSE IF resp.failure # "none" THEN <<"E","r","r","o","r"," ","d","u","r","i","n","g"," ","c","o","m","p","a","c","t",":"," ","e">>
    ELSE Strip(LoopFold(resp.events, <<>>, <<>>).full_content)

\* /compact
Compact(resp) ==
    /\ loop.pc = "prompt"
    /\ nmodel' = IF Len(messages) < 4 THEN nmodel ELSE nmodel + 1
    /\ messages' = apply_compact(messages, compact_conversation(messages, resp))
    /\ db_messages' = CompactRows(messages')
    /\ UNCHANGED <<loop, invoked, gateState>>
    /\ LoopOnly

\* set_permission_mode(m)  (/auto and /ask in main); the mode is chosen before
\* the first message of the conversation.
SetPermissionMode(m) ==
    /\ loop.pc = "prompt"
    /\ loop.turn = 0
    /\ mode' = IF m \in Modes THEN m ELSE mode
    /\ UNCHANGED <<rules, approved_this_session, alwaysSince, loopVars>>
    /\ LoopOnly

\* get_permission_manager().add_rule(tool, pattern, action), each rule once,
\* before the first message of the conversation.
LoopAddRule(r) ==
    /\ loop.pc = "prompt"
    /\ loop.turn = 0
    /\ \A k \in 1..Len(rules) : rules[k] # r
    /\ Len(rules) < Len(DEFAULT_RULES) + MaxAdded
    /\ rules' = add_rule(rules, r.tool, r.pattern, r.action)
    /\ alwaysSince' = {}
    /\ UNCHANGED <<mode, approved_this_session, loopVars>>
    /\ LoopOnly

\* ---- agentic_loop ----
\* An exception leaves agentic_loop: main's "except Exception" prints it and
\* goes back to the prompt.
RaiseOut(exc) == [loop EXCEPT !.pc = "prompt", !.outcome = "raised", !.exc = exc]

\* One pass of "while True" from call_api to the appended assistant message.
ModelResponds(resp) ==
    /\ loop.pc = "model"
    /\ LET fold == LoopFold(resp.events, <<>>, <<>>)
           tcs == fold.tool_calls
       IN  IF resp.failure # "none"
           THEN /\ loop' = [RaiseOut(resp.failure) EXCEPT !.sent = Len(messages),
                                                           !.failure = resp.failure]
                /\ UNCHANGED <<messages, db_messages>>
           ELSE /\ tcs # <<>> => nmodel < MaxModelCalls
                /\ db_messages' = Append(db_messages,
                        Row("assistant", fold.full_content,
                            IF tcs # <<>> THEN tcs ELSE <<>>, None))
                /\ messages' = Append(messages, AssistantMessage(fold.full_content, tcs))
                /\ loop' = [loop EXCEPT
                        !.sent = Len(messages),
                        !.failure = "none",
                        !.full_content = fold.full_content,
                        !.tool_calls = tcs,
                        !.i = IF tcs # <<>> THEN 1 ELSE 0,
                        !.tool_results = <<>>,
                        !.pc = IF tcs # <<>> THEN "tools" ELSE "prompt",
                        !.outcome = IF tcs # <<>> THEN "running" ELSE "returned"]
    /\ nmodel' = nmodel + 1
    /\ UNCHANGED <<invoked, gateState>>
    /\ LoopOnly

\* The arguments the loop goes on with: json.loads, {} on JSONDecodeError.
LoopArgs(text) ==
    LET parsed == json_loads(text)
    IN  IF parsed.kind = "JSONDecodeError" THEN Parsed("dict", NoArgs) ELSE parsed

\* Mutant of NextCall: the result put in front of the earlier results.
NextCallPrepend(l, tc, result) ==
    [l EXCEPT !.pc = "tools", !.i = l.i + 1,
              !.tool_results = <<ToolResult(tc, result)>> \o l.tool_results]

\* A result appended to tool_results, the loop moving to the next call.
NextCall(l, tc, result) ==
    [l EXCEPT !.pc = "tools", !.i = l.i + 1,
              !.tool_results = Append(l.tool_results, ToolResult(tc, result))]

\* Mutant of AfterGate: a denied call is dispatched all the same.
AfterGateDenyRuns(l, tc, decision) ==
    IF decision.allowed = "ask" THEN [l EXCEPT !.pc = "asking"]
    ELSE [l EXCEPT !.pc = "exec"]

\* "if allowed is None / elif allowed is False": prompt, refuse, or go on to
\* the dispatch.
AfterGate(l, tc, decision) ==
    IF decision.allowed = "ask" THEN [l EXCEPT !.pc = "asking"]
    ELSE IF decision.allowed = "deny"
    THEN NextCall(l, tc, BlockedResult(ReasonText(decision.reason)))
    ELSE [l EXCEPT !.pc = "exec"]

\* "for tc in tool_calls" from json.loads to the gate's answer.
CheckCall ==
    /\ loop.pc = "tools"
    /\ loop.i <= Len(loop.tool_calls)
    /\ \E tc \in {loop.tool_calls[loop.i]} :
       \E parsed \in {LoopArgs(tc.arguments)} :
           IF parsed.kind # "dict"
           THEN loop' = RaiseOut("AttributeError")      \* args.values() / args.get()
           ELSE \E decision \in {check_permission(tc.name, parsed.value)} :
                    loop' = AfterGate([loop EXCEPT !.args = parsed.value,
                                                   !.allowed = decision.allowed,
                                                   !.reason = decision.reason,
                                                   !.answer = "none"],
                                      tc, decision)
    /\ UNCHANGED <<messages, db_messages, invoked, nmodel, gateState>>
    /\ LoopOnly

\* prompt_for_permission(tc["name"], args) with the user's answer.
Prompt(answer) ==
    /\ loop.pc = "asking"
    /\ LET tc == loop.tool_calls[loop.i]
           l == [loop EXCEPT !.answer = answer]
       IN  IF answer = "y"
           THEN /\ Cardinality(approved_this_session) < MaxApproved
                /\ approved_this_session' =
                       approved_this_session \cup {ApproveKey(tc.name, loop.args)}
                /\ loop' = [l EXCEPT !.pc = "exec"]
                /\ UNCHANGED <<rules, alwaysSince>>
           ELSE IF answer = "a"
           THEN /\ Len(rules) < Len(DEFAULT_RULES) + MaxAdded
                /\ rules' = approve_all(rules, tc.name)
                /\ alwaysSince' = alwaysSince \cup {tc.name}
                /\ loop' = [l EXCEPT !.pc = "exec"]
                /\ UNCHANGED approved_this_session
           ELSE /\ loop' = NextCall(l, tc, SkippedResult)
                /\ UNCHANGED <<rules, approved_this_session, alwaysSince>>
    /\ UNCHANGED <<mode, messages, db_messages, invoked, nmodel>>
    /\ LoopOnly

\* A handler or remote call the loop made.
Invocation(tc, via, r, l) ==
    [round |-> nmodel, id |-> tc.id, name |-> tc.name, via |-> via, kind |-> r.kind,
     failed |-> r.failed, text |-> r.text, tracked |-> r.tracked,
     allowed |-> l.allowed, answer |-> l.answer]

\* The dispatch of one call: mcp.call_tool or run_tool, then the result
\* stored and appended to tool_results.
Execute(env, tracker_ok, remote) ==
    /\ loop.pc = "exec"
    /\ LET tc == loop.tool_calls[loop.i]
           isMcp == StartsWith(tc.name, McpPrefix)
           parts == McpParts(tc.name)
           remoteText == json_dumps(call_tool(parts[1], parts[2], loop.args, remote))
           r == IF isMcp
                THEN IF Len(parts) = 2
                     THEN RunResult("return", remoteText, remote # "result", FALSE)
                     ELSE RunResult("return", <<"e","r","r","o","r",":"," ","i","n","v","a","l","i","d"," ","M","C","P"," ","t","o","o","l"," ","n","a","m","e">>, TRUE, FALSE)
                ELSE run_tool(tc.name, loop.args, env, tracker_ok)
           via == IF ~isMcp THEN "run_tool" ELSE IF Len(parts) = 2 THEN "call_tool" ELSE "none"
       IN  \* each outcome is taken once: the machine matters to a handler only,
           \* the tracker to write and edit only, the provider to a remote call only
           /\ via # "run_tool" => env = "ok"
           /\ ~(via = "run_tool" /\ tc.name \in {T_write, T_edit}) => tracker_ok
           /\ via # "call_tool" => remote = "result"
           /\ invoked' = IF via = "none" THEN invoked
                         ELSE Append(invoked, Invocation(tc, via, r, loop))
           /\ IF r.kind = "interrupt"
              THEN /\ loop' = [loop EXCEPT !.pc = "exited", !.outcome = "interrupted",
                                           !.exc = "KeyboardInterrupt"]
                   /\ UNCHANGED db_messages
              ELSE /\ db_messages' = Append(db_messages, Row("tool", r.text, <<>>, tc.id))
                   /\ loop' = NextCall(loop, tc, r.text)
    /\ UNCHANGED <<messages, nmodel, gateState>>
    /\ LoopOnly

\* Mutant of EndRound: an iteration cap, the loop returning after one round.
EndRoundReturns ==
    /\ loop.pc = "tools"
    /\ loop.i > Len(loop.tool_calls)
    /\ messages' = messages \o loop.tool_results
    /\ loop' = [loop EXCEPT !.pc = "prompt", !.outcome = "returned"]
    /\ UNCHANGED <<db_messages, invoked, nmodel, gateState>>
    /\ LoopOnly

\* messages.extend(tool_results), and back to the top of "while True".
EndRound ==
    /\ loop.pc = "tools"
    /\ loop.i > Len(loop.tool_calls)
    /\ messages' = messages \o loop.tool_results
    /\ loop' = [loop EXCEPT !.pc = "model"]
    /\ UNCHANGED <<db_messages, invoked, nmodel, gateState>>
    /\ LoopOnly

U_text == <<"u">>

LoopNext ==
    \/ UserMessage(U_text)
    \/ Clear
    \/ \E resp \in CompactResponseSet : Compact(resp)
    \/ \E m \in Modes : SetPermissionMode(m)
    \/ \E r \in LoopRuleSet : LoopAddRule(r)
    \/ \E resp \in ResponseSet : ModelResponds(resp)
    \/ CheckCall
    \/ \E answer \in Answers : Prompt(answer)
    \/ \E env \in Envs, tracker_ok \in BOOLEAN, remote \in Remotes :
           Execute(env, tracker_ok, remote)
    \/ EndRound

(***************************************************************************)
(* Background jobs (src/suckcode/tools.py)                                 *)
(***************************************************************************)
MaxJobs == 3        \* bash_bg calls

\* str(n)
DigitSeq == <<"0","1","2","3","4","5","6","7","8","9">>
RECURSIVE Decimal(_)
Decimal(n) ==
    IF n < 10 THEN <<DigitSeq[n + 1]>>
    ELSE Decimal(n \div 10) \o <<DigitSeq[(n % 10) + 1]>>

\* f"bg_{_bg_counter}"
GeneratedName(counter) == <<"b","g","_">> \o Decimal(counter)

\* args.get("name") of a bash_bg call: absent, empty, or a name the model
\* chose, which may be one that bash_bg generates itself.
J_w == <<"w">>
BgNameArgs == {None, <<>>, J_w, GeneratedName(1)}

\* The operand of /stop: a job name, a name no job has, or none.
StopNames == {J_w, GeneratedName(0), GeneratedName(1), <<"z","z">>}

\* A child started by bash_bg.
Job(name) == [name |-> name, alive |-> TRUE]

\* proc.kill() for every proc in procs_killed.
Kill(children, killed) ==
    [p \in DOMAIN children |->
        IF p \in killed THEN [children[p] EXCEPT !.alive = FALSE] ELSE children[p]]

Range(f) == {f[x] : x \in DOMAIN f}

\* Module import: no background process, _bg_counter = 0.
BgInit ==
    /\ background_processes = EmptyMap
    /\ bg_counter = 0
    /\ bg_started = <<>>
    /\ bg_exit = FALSE

BgOnly == UNCHANGED <<gateVars, streamVars, mcpVars, loopVars, bootVars, routeVars,
                        toolVars>>

\* name = args.get("name") or f"bg_{_bg_counter}"
BgJobName(name_arg, counter) == PyOr(name_arg, GeneratedName(counter))

\* tool_bash_bg(args): the counter moves on whatever happens; when Popen
\* succeeds the child is stored under the name, replacing what was there.
tool_bash_bg(name_arg, launch_ok) ==
    /\ ~bg_exit
    /\ bg_counter < MaxJobs
    /\ bg_counter' = bg_counter + 1
    /\ IF launch_ok
       THEN /\ bg_started' = Append(bg_started, Job(BgJobName(name_arg, bg_counter)))
            /\ background_processes' =
                   Put(background_processes, BgJobName(name_arg, bg_counter),
                       Len(bg_started) + 1)
       ELSE UNCHANGED <<bg_started, background_processes>>       \* return f"error: {e}"
    /\ UNCHANGED bg_exit
    /\ BgOnly

\* cleanup_processes(): kill every process in the table, then clear it.
cleanup_processes ==
    /\ bg_started' = Kill(bg_started, Range(background_processes))
    /\ background_processes' = EmptyMap

\* stop_background(name), from /stop <name>.
StopBackground(name) ==
    /\ ~bg_exit
    /\ IF name \in DOMAIN background_processes
       THEN /\ bg_started' = Kill(bg_started, {background_processes[name]})
            /\ background_processes' = Pop(background_processes, name)
       ELSE UNCHANGED <<bg_started, background_processes>>       \* "No process named"
    /\ UNCHANGED <<bg_counter, bg_exit>>
    /\ BgOnly

\* stop_background(), from /stop.
StopAllBackground ==
    /\ ~bg_exit
    /\ cleanup_processes
    /\ UNCHANGED <<bg_counter, bg_exit>>
    /\ BgOnly

\* A background command finishes by itself; its entry stays in the table.
JobEnds(p) ==
    /\ ~bg_exit
    /\ p <= Len(bg_started)
    /\ bg_started[p].alive
    /\ bg_started' = [bg_started EXCEPT ![p].alive = FALSE]
    /\ UNCHANGED <<background_processes, bg_counter, bg_exit>>
    /\ BgOnly

\* The interpreter exits: atexit runs cleanup_processes.
ProcessExit ==
    /\ ~bg_exit
    /\ cleanup_processes
    /\ bg_exit' = TRUE
    /\ UNCHANGED bg_counter
    /\ BgOnly

BgNext ==
    \/ \E name_arg \in BgNameArgs, launch_ok \in BOOLEAN : tool_bash_bg(name_arg, launch_ok)
    \/ \E name \in StopNames : StopBackground(name)
    \/ StopAllBackground
    \/ \E p \in 1..MaxJobs : JobEnds(p)
    \/ ProcessExit

(***************************************************************************)
(* Startup (src/suckcode/config.py load_config, src/suckcode/suckcode.py   *)
(* main up to the first prompt)                                            *)
(***************************************************************************)
MaxSends == 2       \* user messages sent to the model in interactive mode

\* Config.api_key: str = "openrouter_api_key"
DEFAULT_API_KEY == <<"o","p","e","n","r","o","u","t","e","r","_","a","p","i","_","k","e","y">>

K_file == <<"f","k">>
K_env == <<"e","k">>

\* One of CONFIG_PATHS: whether the file exists, its [api] key (None when the
\* table has none) and whether it has a non-empty [mcp] servers table.
CONFIG_PATHS == <<"~/.suckcode.toml", "~/.config/suckcode.toml", ".suckcode.toml">>
ConfigFile(exists, key, has_servers) ==
    [exists |-> exists, key |-> key, servers |-> has_servers]
ConfigFileSet ==
    { ConfigFile(FALSE, None, FALSE), ConfigFile(TRUE, None, FALSE),
      ConfigFile(TRUE, None, TRUE), ConfigFile(TRUE, <<>>, FALSE),
      ConfigFile(TRUE, K_file, TRUE) }

\* os.environ.get(name): None when unset.
EnvValues == {None, <<>>, K_env}

\* _apply_config over the files in CONFIG_PATHS order, later files overriding.
RECURSIVE ApplyFiles(_, _)
ApplyFiles(config, files) ==
    IF files = <<>> THEN config
    ELSE LET f == Head(files)
             keyed == IF f.exists /\ f.key # None
                      THEN [config EXCEPT !.api_key = f.key] ELSE config
             served == IF f.exists /\ f.servers
                       THEN [keyed EXCEPT !.mcp_servers = TRUE] ELSE keyed
         IN  ApplyFiles(served, Tail(files))

\* load_config(): Config(), then the files, then the environment.
load_config(files, env) ==
    LET filed == ApplyFiles([api_key |-> DEFAULT_API_KEY, mcp_servers |-> FALSE], files)
        first == IF Truthy(env.OPENROUTER_API_KEY)
                 THEN [filed EXCEPT !.api_key = env.OPENROUTER_API_KEY] ELSE filed
    IN  IF Truthy(env.ANTHROPIC_API_KEY) /\ ~Truthy(first.api_key)
        THEN [first EXCEPT !.api_key = env.ANTHROPIC_API_KEY] ELSE first

BootStart ==
    [pc |-> "start", config |-> [api_key |-> None, mcp_servers |-> FALSE],
     errors |-> 0, exit_code |-> -1, mcp_connects |-> 0, session_loaded |-> FALSE,
     cleared |-> FALSE, sent |-> 0]

\* The process is started: some config files, some environment, some arguments.
BootInit ==
    /\ environment \in [files : [DOMAIN CONFIG_PATHS -> ConfigFileSet],
                        env : [OPENROUTER_API_KEY : EnvValues, ANTHROPIC_API_KEY : EnvValues],
                        init_config : BOOLEAN, clear : BOOLEAN, prompt : BOOLEAN]
    /\ boot = BootStart

BootIdle ==
    /\ environment = [files |-> [i \in DOMAIN CONFIG_PATHS |-> ConfigFile(FALSE, None, FALSE)],
                      env |-> [OPENROUTER_API_KEY |-> None, ANTHROPIC_API_KEY |-> None],
                      init_config |-> FALSE, clear |-> FALSE, prompt |-> FALSE]
    /\ boot = BootStart

BootOnly == UNCHANGED <<gateVars, streamVars, mcpVars, loopVars, bgVars, routeVars,
                        toolVars, environment>>

\* config = get_config()
GetConfig ==
    /\ boot.pc = "start"
    /\ boot' = [boot EXCEPT !.pc = "flags",
                            !.config = load_config(environment.files, environment.env)]
    /\ BootOnly

\* if args.init_config: save the template and return.
InitConfigFlag ==
    /\ boot.pc = "flags"
    /\ environment.init_config
    /\ boot' = [boot EXCEPT !.pc = "exited", !.exit_code = 0]
    /\ BootOnly

\* if args.clear: clear_messages(args.session) and return.
ClearFlag ==
    /\ boot.pc = "flags"
    /\ ~environment.init_config
    /\ environment.clear
    /\ boot' = [boot EXCEPT !.pc = "exited", !.exit_code = 0, !.cleared = TRUE]
    /\ BootOnly

\* if not config.api_key: print_error(...); sys.exit(1)
CheckApiKey ==
    /\ boot.pc = "flags"
    /\ ~environment.init_config
    /\ ~environment.clear
    /\ boot' = IF ~Truthy(boot.config.api_key)
               THEN [boot EXCEPT !.pc = "exited", !.exit_code = 1, !.errors = @ + 1]
               ELSE [boot EXCEPT !.pc = "mcp"]
    /\ BootOnly

\* if config.mcp_servers: init_mcp_from_config(config.mcp_servers)
InitMcpServers ==
    /\ boot.pc = "mcp"
    /\ boot' = [boot EXCEPT !.pc = "session",
                            !.mcp_connects = IF boot.config.mcp_servers THEN @ + 1 ELSE @]
    /\ BootOnly

\* session = get_or_create_session(...); messages = get_messages(args.session)
LoadSession ==
    /\ boot.pc = "session"
    /\ boot' = [boot EXCEPT !.pc = IF environment.prompt THEN "oneshot" ELSE "prompt",
                            !.session_loaded = TRUE]
    /\ BootOnly

\* Non-interactive mode: agentic_loop on the prompt, shutdown_mcp(), return.
OneShot ==
    /\ boot.pc = "oneshot"
    /\ boot' = [boot EXCEPT !.pc = "exited", !.exit_code = 0, !.sent = @ + 1]
    /\ BootOnly

\* Interactive mode: the user types a message and agentic_loop sends it.
BootUserMessage ==
    /\ boot.pc = "prompt"
    /\ boot.sent < MaxSends
    /\ boot' = [boot EXCEPT !.sent = @ + 1]
    /\ BootOnly

\* /q, EOF or Ctrl-C at the prompt: shutdown_mcp() and return.
BootQuit ==
    /\ boot.pc = "prompt"
    /\ boot' = [boot EXCEPT !.pc = "exited", !.exit_code = 0]
    /\ BootOnly

BootNext ==
    \/ GetConfig
    \/ InitConfigFlag
    \/ ClearFlag
    \/ CheckApiKey
    \/ InitMcpServers
    \/ LoadSession
    \/ OneShot
    \/ BootUserMessage
    \/ BootQuit

(***************************************************************************)
(* Remote tool names (src/suckcode/mcp.py get_tools_schema,                *)
(* src/suckcode/suckcode.py agentic_loop dispatch)                         *)
(***************************************************************************)
MaxRegistered == 2  \* tools registered in all_tools

\* Connection identities (keys of [mcp.servers.*]) and remote tool names.
S_a == <<"a">>
S_a_b == <<"a","_","b">>
S_fs == <<"f","s">>
ServerNames == {S_a, S_a_b, S_fs}
R_c == <<"c">>
R_b_c == <<"b","_","c">>
R_get == <<"g","e","t">>
RemoteToolNames == {R_c, R_b_c, R_get}

\* f"mcp_{tool.server_name}_{tool.name}"
SchemaName(tool) == McpPrefix \o tool.server_name \o <<"_">> \o tool.name

NoRoute == [name |-> <<>>, via |-> "none", server_name |-> <<>>, tool_name |-> <<>>]

RouteInit ==
    /\ advertised = {}
    /\ routed = NoRoute

RouteOnly == UNCHANGED <<gateVars, streamVars, loopVars, bgVars, bootVars, toolVars,
                         servers, sobj, procs, readers, all_resources, fg, ret,
                         ncalls, nfaults>>

\* _discover_tools: self.all_tools[f"{server.name}/{tool.name}"] = tool
RegisterTool(server_name, tool_name) ==
    /\ Cardinality(DOMAIN all_tools) < MaxRegistered
    /\ ToolKey(server_name, tool_name) \notin DOMAIN all_tools
    /\ all_tools' = Put(all_tools, ToolKey(server_name, tool_name),
                        MCPTool(tool_name, server_name))
    /\ UNCHANGED <<advertised, routed>>
    /\ RouteOnly

\* get_tools_schema(): the function names handed to the model.
GetToolsSchema ==
    /\ advertised' = { SchemaName(all_tools[k]) : k \in DOMAIN all_tools }
    /\ UNCHANGED <<all_tools, routed>>
    /\ RouteOnly

\* agentic_loop's dispatch of a call the model makes under an advertised name.
RouteCall(name) ==
    /\ name \in advertised
    /\ LET parts == McpParts(name)
       IN  routed' =
               IF ~StartsWith(name, McpPrefix)
               THEN [name |-> name, via |-> "run_tool", server_name |-> <<>>, tool_name |-> <<>>]
               ELSE IF Len(parts) = 2
               THEN [name |-> name, via |-> "call_tool",
                     server_name |-> parts[1], tool_name |-> parts[2]]
               ELSE [name |-> name, via |-> "invalid", server_name |-> <<>>, tool_name |-> <<>>]
    /\ UNCHANGED <<all_tools, advertised>>
    /\ RouteOnly

RouteNext ==
    \/ \E s \in ServerNames, t \in RemoteToolNames : RegisterTool(s, t)
    \/ GetToolsSchema
    \/ \E s \in ServerNames, t \in RemoteToolNames :
           RouteCall(SchemaName(MCPTool(t, s)))

(***************************************************************************)
(* Tool dispatch (src/suckcode/tools.py run_tool, src/suckcode/db.py       *)
(* track_file_change)                                                      *)
(***************************************************************************)
MaxRuns == 2  \* run_tool calls

\* The argument maps run_tool is called with.
O_a == <<"a">>
ToolArgSet ==
    { NoArgs,
      Arg("path", P_x),
      [path |-> P_x, content |-> O_a],
      [path |-> P_x, old |-> O_a, new |-> O_a],
      Arg("command", C_rm) }

ToolNames == TOOLS \cup {T_nope}

\* db.track_file_change(session_id, path, action): one row of file_changes.
FileChange(path, action) == [path |-> path, action |-> action]

ToolInit ==
    /\ file_changes = <<>>
    /\ ran = <<>>

ToolIdle == ToolInit

ToolOnly == UNCHANGED <<gateVars, streamVars, mcpVars, loopVars, bgVars, bootVars,
                        routeVars>>

\* run_tool(name, args, session_id) with a session id.
RunTool(name, args, env, tracker_ok) ==
    /\ Len(ran) < MaxRuns
    /\ \E r \in {run_tool(name, args, env, tracker_ok)} :
         /\ ran' = Append(ran, [name |-> name, args |-> args, tracker_ok |-> tracker_ok,
                                kind |-> r.kind, text |-> r.text, failed |-> r.failed])
         /\ file_changes' =
                IF r.tracked
                THEN Append(file_changes,
                            FileChange(GetDefault(args, "path", <<>>), name))
                ELSE file_changes
    /\ ToolOnly

ToolNext ==
    \E name \in ToolNames, args \in ToolArgSet, env \in Envs, tracker_ok \in BOOLEAN :
        RunTool(name, args, env, tracker_ok)

(***************************************************************************)
(* Specifications                                                          *)
(***************************************************************************)
\* The gate in use; no response being decoded, no capability client activity.
InitGate == GateInit /\ StreamInit /\ McpInit /\ LoopInit /\ BgInit /\ BootIdle /\ RouteInit /\ ToolIdle
SpecGate == InitGate /\ [][GateNext]_vars

\* One response body being decoded.
InitStream == GateAbsent /\ StreamInit /\ McpInit /\ LoopInit /\ BgInit /\ BootIdle /\ RouteInit /\ ToolIdle
SpecStream == InitStream /\ [][StreamNext]_vars

\* The capability client with its providers and reader threads.
InitMcp == GateAbsent /\ StreamInit /\ McpInit /\ LoopInit /\ BgInit /\ BootIdle /\ RouteInit /\ ToolIdle
SpecMcp == InitMcp /\ [][McpNext]_vars

\* The interactive program: turns of the orchestration loop, /c, /compact and
\* the gate's settings between turns.
InitLoop == GateInit /\ StreamInit /\ McpInit /\ LoopInit /\ BgInit /\ BootIdle /\ RouteInit /\ ToolIdle
SpecLoop == InitLoop /\ [][LoopNext]_vars

\* agentic_loop runs on one thread and every call it makes returns: the model
\* answers, the gate decides, the user answers the prompt, the handler or the
\* provider finishes. So a step of the loop that can be taken is taken.
LoopStep ==
    \/ \E resp \in ResponseSet : ModelResponds(resp)
    \/ CheckCall
    \/ \E answer \in Answers : Prompt(answer)
    \/ \E env \in Envs, tracker_ok \in BOOLEAN, remote \in Remotes :
           Execute(env, tracker_ok, remote)
    \/ EndRound

\* Turns alone, from every gate setting the commands before a turn can leave:
\* any mode, with or without the deny rule.
InitTurns ==
    /\ rules \in {DEFAULT_RULES} \cup
                 { add_rule(DEFAULT_RULES, r.tool, r.pattern, r.action) : r \in LoopRuleSet }
    /\ mode \in Modes
    /\ approved_this_session = {}
    /\ gate = GateIdle
    /\ alwaysSince = {}
    /\ StreamInit /\ McpInit /\ LoopInit /\ BgInit /\ BootIdle /\ RouteInit /\ ToolIdle
TurnsNext == UserMessage(U_text) \/ LoopStep
SpecLoopFair == InitTurns /\ [][TurnsNext]_vars /\ WF_vars(LoopStep)

\* The background jobs of one run of the program, up to its exit.
InitBg == GateAbsent /\ StreamInit /\ McpInit /\ LoopInit /\ BgInit /\ BootIdle /\ RouteInit /\ ToolIdle
SpecBg == InitBg /\ [][BgNext]_vars

\* One start of the program, from any configuration, up to its exit.
InitBoot == GateAbsent /\ StreamInit /\ McpInit /\ LoopInit /\ BgInit /\ BootInit
                /\ RouteInit /\ ToolIdle
SpecBoot == InitBoot /\ [][BootNext]_vars

\* Remote tools registered, advertised to the model and called by it.
InitRoute == GateAbsent /\ StreamInit /\ McpInit /\ LoopInit /\ BgInit /\ BootIdle
                 /\ RouteInit /\ ToolIdle
SpecRoute == InitRoute /\ [][RouteNext]_vars

\* run_tool called on its own, with every handler outcome.
InitTool == GateAbsent /\ StreamInit /\ McpInit /\ LoopInit /\ BgInit /\ BootIdle
                /\ RouteInit /\ ToolInit
SpecTool == InitTool /\ [][ToolNext]_vars

(***************************************************************************)
(* Stream Decoder: claims                                                  *)
(***************************************************************************)
\* The texts of the content events of evs, concatenated in order.
RECURSIVE ConcatContent(_)
ConcatContent(evs) ==
    IF evs = <<>> THEN <<>>
    ELSE (IF Head(evs).type = "content" THEN Head(evs).text ELSE <<>>)
             \o ConcatContent(Tail(evs))

ContentEvents(evs) == { i \in 1..Len(evs) : evs[i].type = "content" }

\* C4: the text of the final done event is the concatenation, in arrival order,
\* of the texts of the content events yielded before it.
C4_DoneTextIsConcatenation ==
    stream = "done" =>
        /\ events[Len(events)].type = "done"
        /\ events[Len(events)].text = ConcatContent(SubSeq(events, 1, Len(events) - 1))

\* C4 witness: the stream ended after the content events "a" then "b".
C4_Witness ==
    /\ stream = "done"
    /\ Cardinality(ContentEvents(events)) = 2
    /\ events[1].text = TA /\ events[2].text = TB
    /\ events[Len(events)].text = <<"a", "b">>

\* The fragments of the consumed lines, in arrival order.
RECURSIVE FragmentsOf(_)
FragmentsOf(lines) ==
    IF lines = <<>> THEN <<>>
    ELSE (IF Head(lines).kind = "chunk" /\ Head(lines).choices = "one"
          THEN Head(lines).tool_calls ELSE <<>>) \o FragmentsOf(Tail(lines))

\* What the fragments with index i assemble to: the last id and name given, and
\* the argument texts concatenated in arrival order.
RECURSIVE AssembleIndex(_, _, _)
AssembleIndex(frags, i, acc) ==
    IF frags = <<>> THEN acc
    ELSE LET tc == Head(frags)
             next == IF FragIndex(tc) # i THEN acc
                     ELSE [id |-> IF tc.id # None THEN tc.id ELSE acc.id,
                           name |-> IF tc.name # None THEN tc.name ELSE acc.name,
                           arguments |-> IF tc.arguments # None
                                         THEN acc.arguments \o tc.arguments
                                         ELSE acc.arguments]
         IN  AssembleIndex(Tail(frags), i, next)

MaxIndex == 2
RECURSIVE AssembleFrom(_, _)
AssembleFrom(frags, i) ==
    IF i > MaxIndex THEN <<>>
    ELSE (IF \E k \in 1..Len(frags) : FragIndex(frags[k]) = i
          THEN <<AssembleIndex(frags, i, BlankCall)>> ELSE <<>>)
             \o AssembleFrom(frags, i + 1)

\* The list ordered by index that holds every fragment received.
AssembledByIndex(lines) == AssembleFrom(FragmentsOf(lines), 0)

WellFormed(line) ==
    line.kind \in {"other", "sentinel"} \/ (line.kind = "chunk" /\ line.choices # "empty")

Malformed(line) ==
    line.kind \in {"unparseable", "nondict"} \/ (line.kind = "chunk" /\ line.choices = "empty")

\* C2: whatever the order of the fragments' indices, the decoder does not fail
\* on a well-formed line, and at the end of the stream the tool-call list is the
\* list ordered by index holding every fragment received.
C2_FragmentsAssembleByIndex ==
    /\ (stream = "raised" => ~WellFormed(consumed[Len(consumed)]))
    /\ (stream = "done" /\ tool_calls # <<>> =>
           tool_calls = AssembledByIndex(consumed))

\* C3: a malformed payload (unparseable, or parseable without the delta shape)
\* is skipped: the decoder does not raise on it.
C3_MalformedPayloadSkipped ==
    (consumed # <<>> /\ Malformed(consumed[Len(consumed)])) => stream # "raised"

(***************************************************************************)
(* Permission Gate: claims                                                 *)
(***************************************************************************)
\* Session-approval sets a decision is quantified over: none, the current one,
\* and the one holding the call's own key.
ApprovalSets(tool_name, args) ==
    { {}, approved_this_session, {CheckKey(tool_name, args)} }

Positions(rs) == 1..Len(rs)

\* The gate is between two calls. A call in progress changes neither the rules
\* nor the mode nor the approvals, so what holds of all calls between calls
\* holds while one is decided too.
BetweenCalls == gate.pc = "idle"

\* C7: once a bash call was approved with "always" (and add_rule was not called
\* for anything else since), every bash call, with every argument map, is
\* answered allow by the gate, in every mode and with every approval set, so
\* the loop never prompts for it.
C7_AlwaysBashAllowed ==
    T_bash \in alwaysSince =>
        /\ BetweenCalls =>
              \A a \in ArgSet, m \in Modes :
                  \A apr \in ApprovalSets(T_bash, a) :
                      Check(rules, m, apr, T_bash, a).allowed = "allow"
        /\ (gate.pc = "decided" /\ gate.tool = T_bash => gate.allowed = "allow")

\* C7 witness: after the "always" approval the mode was changed to strict, a
\* single call was approved, an older rule denies "rm", and the gate has just
\* allowed bash "rm".
C7_Witness ==
    /\ T_bash \in alwaysSince
    /\ mode = "strict"
    /\ approved_this_session # {}
    /\ \E i \in Positions(rules) : rules[i] = PermissionRule(T_bash, C_rm, "deny")
    /\ gate.pc = "decided" /\ gate.tool = T_bash
    /\ gate.args = Arg("command", C_rm) /\ gate.allowed = "allow"

ReadX == Arg("path", P_x)
AllowReadStar == PermissionRule(T_read, Star, "allow")

\* C8 as stated: whenever the rule list holds the allow rule (read, *), the
\* decision for read {path: /x} is allow in every mode and with every approval set.
C8_AllowRuleAlwaysAllows ==
    (\E i \in Positions(rules) : rules[i] = AllowReadStar) =>
        \A m \in Modes : \A apr \in ApprovalSets(T_read, ReadX) :
            Check(rules, m, apr, T_read, ReadX).allowed = "allow"

\* C8 amended: when the rule list holds the allow rule (read, *) and no deny rule
\* matching the call has a higher priority, the decision for read {path: /x} is
\* allow in every mode and with every approval set.
C8_AllowRuleUnlessDeniedAbove ==
    (\E i \in Positions(rules) :
        /\ rules[i] = AllowReadStar
        /\ \A j \in 1..(i - 1) :
              ~(rules[j].action = "deny" /\ Matches(rules[j], T_read, P_x))) =>
        /\ BetweenCalls =>
              \A m \in Modes : \A apr \in ApprovalSets(T_read, ReadX) :
                  Check(rules, m, apr, T_read, ReadX).allowed = "allow"
        /\ (gate.pc = "decided" /\ gate.tool = T_read /\ gate.args = ReadX
               => gate.allowed = "allow")

\* C8 witness: in strict mode, with a deny rule for another tool on top of the
\* defaults, the gate has just allowed read {path: /x}.
C8_Witness ==
    /\ mode = "strict"
    /\ rules[1] = PermissionRule(T_bash, C_rm, "deny")
    /\ \E i \in Positions(rules) : rules[i] = AllowReadStar
    /\ gate.pc = "decided" /\ gate.tool = T_read /\ gate.args = ReadX
    /\ gate.allowed = "allow"

\* No rule of the list matches the call (PermissionRule.matches).
NoRuleMatches(rs, tool_name, args) ==
    \A i \in Positions(rs) : ~Matches(rs[i], tool_name, CheckPath(args))

NoDenyRule(rs) == \A i \in Positions(rs) : rs[i].action # "deny"

\* C10: in auto mode with no deny rule in the list, every call is answered
\* allow; the gate never answers ask.
C10_AutoAllowsWithoutDeny ==
    (mode = "auto" /\ NoDenyRule(rules)) =>
        /\ BetweenCalls =>
              \A t \in CallTools, a \in ArgSet :
                  \A apr \in ApprovalSets(t, a) :
                      Check(rules, mode, apr, t, a).allowed = "allow"
        /\ (gate.pc = "decided" => gate.allowed = "allow")

\* C10 witness: auto mode, no deny rule, nothing approved, an allow rule for
\* bash "rm" was added, and the gate has just allowed write {path: /x}, which no
\* rule matches.
C10_Witness ==
    /\ mode = "auto"
    /\ NoDenyRule(rules)
    /\ Len(rules) > Len(DEFAULT_RULES)
    /\ approved_this_session = {}
    /\ NoRuleMatches(rules, T_write, ReadX)
    /\ gate.pc = "decided" /\ gate.tool = T_write /\ gate.args = ReadX
    /\ gate.allowed = "allow"

(***************************************************************************)
(* Capability Protocol Client: claims                                      *)
(***************************************************************************)
WaitPcs == {"wait_init", "wait_tools", "wait_res", "wait_call", "wait_read"}

\* C1: every wait of the calling thread (handshake, discovery, call_tool,
\* get_resource) that returns a message returns the one carrying the id of the
\* request it has just sent: never another request's id, never a message
\* without id, however the provider's replies and the reader interleave.
C1_ResponseMatchesRequest ==
    [][(fg.pc \in WaitPcs /\ fg' # fg) =>
          LET response == WaitResponse(sobj, fg.obj)
          IN  response # NoMsg => response.id = fg.reqid]_vars

\* The entries of the shared namespaces that belong to the connection named m:
\* those its server object lists and the maps hold under its name.
OwnToolKeys(m) ==
    IF servers[m] = 0 THEN {}
    ELSE {ToolKey(m, sobj[servers[m]].tools[i].name) : i \in DOMAIN sobj[servers[m]].tools}
           \cap {k \in DOMAIN all_tools : all_tools[k].server_name = m}

OwnUris(m) ==
    IF servers[m] = 0 THEN {}
    ELSE {sobj[servers[m]].resources[i].uri : i \in DOMAIN sobj[servers[m]].resources}
           \cap {u \in DOMAIN all_resources : all_resources[u].server_name = m}

\* C5: disconnect(n) removes n's own tools and resources from all_tools and
\* all_resources and leaves the entries of every other connection as they were,
\* also when two connections advertise the same resource URI.
C5_DisconnectRemovesOnlyOwn ==
    [][\A n \in Names : Disconnect(n) =>
          /\ \A k \in OwnToolKeys(n) : k \notin DOMAIN all_tools'
          /\ \A u \in OwnUris(n) : u \notin DOMAIN all_resources'
          /\ \A m \in Names \ {n} :
                /\ \A k \in OwnToolKeys(m) :
                      k \in DOMAIN all_tools' /\ all_tools'[k] = all_tools[k]
                /\ \A u \in OwnUris(m) :
                      u \in DOMAIN all_resources' /\ all_resources'[u] = all_resources[u]]_vars

\* No process of the connection named n has answered initialize, and none will
\* unless the provider still does: the request is unanswered, or the process is gone.
InitializeUnanswered(n) ==
    LET p == sobj[servers[n]].process
    IN  p = 0 \/ \E q \in procs[p].inbox : q.method = "initialize"

\* C6: when connect() has returned and its wait for the initialize response did
\* not get that response (the provider has not answered initialize), connect
\* returned False, the server has no process handle, and all_tools holds no
\* entry it did not hold when connect was called.
C6_InitUnansweredDisconnects ==
    (ret.op = "connect" /\ ret.init \in {"timeout", "other"}
         /\ InitializeUnanswered(ret.name)) =>
        /\ ret.ok = FALSE
        /\ sobj[servers[ret.name]].process = 0
        /\ \A k \in DOMAIN all_tools :
              k \in DOMAIN ret.before /\ all_tools[k] = ret.before[k]

(***************************************************************************)
(* Orchestration Loop: claims                                              *)
(***************************************************************************)
\* The messages appended since the conversation was last sent to the model.
Added == SubSeq(messages, loop.sent + 1, Len(messages))

\* A round of tool calls has just ended: the results are in the conversation
\* and the loop is at the top of "while True", about to call the model again.
RoundDone == loop.pc = "model" /\ loop.outcome = "running" /\ loop.i > 0

\* The handler and remote calls of the current round.
InvokedThisRound == { k \in 1..Len(invoked) : invoked[k].round = nmodel }

\* The text carries a "denied" marker, in either capitalisation.
HasDeniedMarker(s) == Contains(<<"d","e","n","i","e","d">>, s) \/ Contains(<<"D","e","n","i","e","d">>, s)

\* The call is one that strict mode denies: the mode is strict and no rule
\* matches the call.
StrictDenies(tc) ==
    /\ mode = "strict"
    /\ LoopArgs(tc.arguments).kind = "dict"
    /\ NoRuleMatches(rules, tc.name, LoopArgs(tc.arguments).value)

\* C11: after a round whose response carried one tool call that strict mode
\* denied (no rule matching), the conversation has gained exactly the assistant
\* message carrying the call and one tool-result message for it whose content
\* contains a "denied" marker, no tool was invoked, and the loop is about to
\* call the model again.
C11_StrictDenialMarked ==
    (RoundDone /\ Len(loop.tool_calls) = 1 /\ StrictDenies(loop.tool_calls[1])) =>
        /\ Len(Added) = 2
        /\ Added[1] = AssistantMessage(loop.full_content, loop.tool_calls)
        /\ Added[2].role = "tool"
        /\ Added[2].tool_call_id = loop.tool_calls[1].id
        /\ HasDeniedMarker(Added[2].content)
        /\ InvokedThisRound = {}
        /\ loop.pc = "model"

\* C12: when the model's response carries no tool calls, that pass of the loop
\* appends exactly one assistant message (the response's text, no tool-call
\* list), invokes no tool, makes that one model call and no other, and ends
\* the loop: agentic_loop returns and main is back at its prompt.
C12_NoToolCallsEndsTurn ==
    [][ (loop.pc = "model" /\ loop'.outcome # "raised" /\ loop'.tool_calls = <<>>) =>
            /\ messages' = Append(messages,
                                  Message("assistant", loop'.full_content, <<>>, None))
            /\ invoked' = invoked
            /\ nmodel' = nmodel + 1
            /\ loop'.outcome = "returned"
            /\ loop'.pc = "prompt" ]_vars

\* C12 witness: the first turn ended on the response "hi": system prompt, user
\* message and the one assistant message, nothing invoked, one model call.
C12_Witness ==
    /\ loop.outcome = "returned" /\ loop.pc = "prompt"
    /\ nmodel = 1 /\ invoked = <<>>
    /\ messages = << Message("system", SYSTEM_PROMPT, <<>>, None),
                     Message("user", U_text, <<>>, None),
                     Message("assistant", <<"h","i">>, <<>>, None) >>

\* The position of the nearest assistant message before position k, or 0.
NearestAssistant(msgs, k) ==
    IF \E j \in 1..(k - 1) : msgs[j].role = "assistant"
    THEN CHOOSE j \in 1..(k - 1) :
             /\ msgs[j].role = "assistant"
             /\ \A h \in (j + 1)..(k - 1) : msgs[h].role # "assistant"
    ELSE 0

ToolMessages(msgs) == { k \in 1..Len(msgs) : msgs[k].role = "tool" }

\* C13: in every conversation reached through turns, /compact and /c, each
\* tool-result message references a tool-call id that is in the tool-call list
\* of the nearest assistant message before it.
C13_ResultsReferencePrecedingCalls ==
    \A k \in ToolMessages(messages) :
        LET j == NearestAssistant(messages, k)
        IN  /\ j > 0
            /\ \E c \in 1..Len(messages[j].tool_calls) :
                   messages[j].tool_calls[c].id = messages[k].tool_call_id

\* C13 witness: a later turn's conversation holding the two results of an
\* earlier round (ids 1 and 2) after the assistant message that listed both.
C13_Witness ==
    /\ loop.turn = 2
    /\ \E k \in ToolMessages(messages) :
           /\ k + 1 \in ToolMessages(messages)
           /\ messages[k].tool_call_id = Id1
           /\ messages[k + 1].tool_call_id = Id2
           /\ Len(messages[NearestAssistant(messages, k)].tool_calls) = 2

\* The call the loop is at, and the last result it appended.
CurrentCall == loop.tool_calls[loop.i]
LastResult(l) == l.tool_results[Len(l.tool_results)]

\* The step appended one result for the current call, with this prefix, moved
\* to the next call and invoked nothing.
Refused(prefix) ==
    /\ Len(loop'.tool_results) = Len(loop.tool_results) + 1
    /\ LastResult(loop').role = "tool"
    /\ LastResult(loop').tool_call_id = CurrentCall.id
    /\ StartsWith(LastResult(loop').content, prefix)
    /\ loop'.pc = "tools" /\ loop'.i = loop.i + 1
    /\ invoked' = invoked

\* C14: a handler or remote call is invoked only for a call the gate allowed
\* or, after the gate answered ask, the user accepted (y or a); when the gate
\* denies, the user refuses or the prompt is interrupted, a Blocked/Skipped
\* result is appended for the call and the tool is not invoked.
C14_InvokedOnlyIfPermitted ==
    [][ /\ Len(invoked') > Len(invoked) =>
              /\ loop.pc = "exec"
              /\ invoked'[Len(invoked')].id = CurrentCall.id
              /\ \/ loop.allowed = "allow"
                 \/ loop.allowed = "ask" /\ loop.answer \in {"y", "a"}
        /\ ( /\ loop.pc = "tools" /\ loop.i <= Len(loop.tool_calls)
             /\ LoopArgs(CurrentCall.arguments).kind = "dict"
             /\ check_permission(CurrentCall.name,
                                 LoopArgs(CurrentCall.arguments).value).allowed = "deny" )
              => Refused(<<"B","l","o","c","k","e","d",":"," ">>)
        /\ (loop.pc = "asking" /\ loop'.answer \in {"n", "interrupt"})
              => Refused(<<"S","k","i","p","p","e","d",":"," ">>)
        /\ (loop.pc = "asking" /\ loop'.pc = "exec") => loop'.answer \in {"y", "a"}
      ]_vars

\* C14 witness: in one round the first call was allowed by a rule and run, the
\* second was put to the user, whose prompt was interrupted: its Skipped result
\* is there and only the first call was invoked.
C14_Witness ==
    /\ loop.pc = "tools" /\ loop.i = 3
    /\ loop.answer = "interrupt"
    /\ LastResult(loop).content = SkippedResult
    /\ LastResult(loop).tool_call_id = Id2
    /\ Len(invoked) = 1 /\ invoked[1].id = Id1 /\ invoked[1].allowed = "allow"

\* C15: for a call whose argument text is not a well-formed argument object
\* (empty, unparseable, or parsing to something other than a map) the loop
\* goes on with the empty argument map: the turn is not aborted and the gate
\* is consulted with {} (and, where it allows, the dispatcher after it).
C15_BadArgumentsBecomeEmptyMap ==
    [][ ( /\ loop.pc = "tools" /\ loop.i <= Len(loop.tool_calls)
          /\ json_loads(CurrentCall.arguments).kind # "dict" ) =>
            /\ loop'.outcome = "running"
            /\ loop'.args = NoArgs
            /\ loop'.allowed = check_permission(CurrentCall.name, NoArgs).allowed
            /\ loop'.allowed = "allow" => loop'.pc = "exec"
      ]_vars

\* The calls of run_tool made in this turn.
RunToolCalls == { k \in 1..Len(invoked) : invoked[k].via = "run_tool" }

\* C16: run_tool never raises past its boundary: for every tool name and
\* argument map, also when the handler or the change tracker fails, it returns
\* a string, and every failure is returned as a string starting with "error:".
C16_RunToolReturnsErrorStrings ==
    \A k \in RunToolCalls :
        /\ invoked[k].kind = "return"
        /\ invoked[k].failed => StartsWith(invoked[k].text, <<"e","r","r","o","r",":">>)

\* C17: a remote capability call that fails (unknown connection, connection
\* not connected, no response within the timeout, error response of the
\* provider) yields a tool-result whose content has the form "error: ...",
\* and the loop goes on with the next call of the round.
C17_RemoteFailureIsErrorString ==
    [][ ( /\ Len(invoked') > Len(invoked)
          /\ invoked'[Len(invoked')].via = "call_tool"
          /\ invoked'[Len(invoked')].failed ) =>
            /\ Len(loop'.tool_results) = Len(loop.tool_results) + 1
            /\ LastResult(loop').tool_call_id = CurrentCall.id
            /\ StartsWith(LastResult(loop').content, <<"e","r","r","o","r",":"," ">>)
            /\ loop'.pc = "tools" /\ loop'.i = loop.i + 1
      ]_vars

\* C18: a failure while talking to the model (HTTP error status, transport
\* error before or during streaming) does not propagate out of the loop: it
\* becomes part of the conversation, as a message holding a string.
C18_ModelFailureJoinsConversation ==
    [][ (loop.pc = "model" /\ loop'.failure # "none") =>
            /\ loop'.outcome # "raised"
            /\ Len(messages') > Len(messages)
      ]_vars

InRound == loop.pc \in {"tools", "asking", "exec"}
Aborted == loop.outcome \in {"raised", "interrupted"}

\* C19: the loop returns exactly when a response carries no tool calls: a
\* response without tool calls makes it return, a response with tool calls
\* starts a round, and a round never ends in a return (there is no iteration
\* cap) but, every handler, remote call and prompt returning, leads back to
\* the model call unless an exception leaves the loop; once the model stops
\* asking for tools the loop ends.
C19_ReturnsExactlyOnNoToolCalls ==
    /\ [](loop.outcome = "returned" => loop.tool_calls = <<>> /\ loop.pc = "prompt")
    /\ [][ (loop.pc = "model" /\ loop'.failure = "none") =>
               /\ loop'.tool_calls = <<>> => loop'.outcome = "returned"
               /\ loop'.tool_calls # <<>> => loop'.outcome = "running" /\ loop'.pc = "tools"
         ]_vars
    /\ [][ InRound => loop'.outcome # "returned" ]_vars
    /\ (InRound ~> (loop.pc = "model" \/ Aborted))
    /\ (loop.outcome = "running" ~> loop.outcome # "running")

\* C19 witness: a second round is not capped: after one completed round the
\* loop called the model again, got no tool calls and returned.
C19_Witness ==
    /\ loop.outcome = "returned"
    /\ nmodel = 2 /\ loop.turn = 1
    /\ ToolMessages(messages) # {}
    /\ messages[Len(messages)].role = "assistant"
    /\ messages[Len(messages)].tool_calls = <<>>

\* The position in the current response of the call an invocation was made for
\* (the ids of one response are distinct in ResponseSet).
PositionOf(id) == CHOOSE k \in 1..Len(loop.tool_calls) : loop.tool_calls[k].id = id

\* The results are those of the first n calls, in the order of the calls.
ResultsInCallOrder(results, n) ==
    /\ Len(results) = n
    /\ \A k \in 1..n : results[k].role = "tool"
                       /\ results[k].tool_call_id = loop.tool_calls[k].id

\* C20: within one round the calls are handled one at a time in the order
\* received: while call i is being checked, prompted for or executed, exactly
\* the calls before it have their result, nothing was invoked for a later
\* call, and invocations were made in call order; when the round ends the
\* results stand in the conversation in the order of the calls.
C20_CallsHandledInOrder ==
    /\ InRound =>
          /\ ResultsInCallOrder(loop.tool_results, loop.i - 1)
          /\ \A k \in InvokedThisRound : PositionOf(invoked[k].id) < loop.i
          /\ \A k, h \in InvokedThisRound :
                 k < h => PositionOf(invoked[k].id) < PositionOf(invoked[h].id)
    /\ RoundDone =>
          /\ Len(Added) = 1 + Len(loop.tool_calls)
          /\ ResultsInCallOrder(SubSeq(Added, 2, Len(Added)), Len(loop.tool_calls))

\* C20 witness: a round of two calls, both executed, has ended.
C20_Witness ==
    /\ RoundDone
    /\ Len(loop.tool_calls) = 2
    /\ Len(invoked) = 2 /\ invoked[1].id = Id1 /\ invoked[2].id = Id2
    /\ Added[2].tool_call_id = Id1 /\ Added[3].tool_call_id = Id2

(***************************************************************************)
(* Capability Protocol Client: disconnect_all                              *)
(***************************************************************************)
\* C21: disconnect_all is idempotent and safe: after one call no connection
\* has a process handle and all_tools and all_resources hold no entry of any
\* connection, and a second call changes nothing (also when nothing was ever
\* connected, or after a failed connect).
C21_DisconnectAllIdempotent ==
    [][DisconnectAll =>
          /\ \A n \in Names : servers'[n] # 0 => sobj'[servers'[n]].process = 0
          /\ \A k \in DOMAIN all_tools' : all_tools'[k].server_name \notin Names
          /\ \A u \in DOMAIN all_resources' : all_resources'[u].server_name \notin Names
          /\ LET after == ClientState(servers', sobj', procs', all_tools', all_resources')
             IN  disconnect_each(after, NameOrder) = after]_vars

(***************************************************************************)
(* Background jobs: claims                                                 *)
(***************************************************************************)
\* C22: every job bash_bg has started and that is still running is in the
\* name-to-handle table, whatever names (given or generated) the calls used;
\* so after stop_background() and after the exit-time cleanup no started job
\* is running.
C22_BackgroundJobsTracked ==
    /\ [](\A p \in DOMAIN bg_started :
              (bg_started[p].alive /\ ~bg_exit) => p \in Range(background_processes))
    /\ [][(StopAllBackground \/ ProcessExit) =>
              \A p \in DOMAIN bg_started' : ~bg_started'[p].alive]_vars

(***************************************************************************)
(* Startup: claims                                                         *)
(***************************************************************************)
\* No key in any config file and no key environment variable.
NoCredential ==
    /\ \A i \in DOMAIN CONFIG_PATHS :
          ~(environment.files[i].exists /\ Truthy(environment.files[i].key))
    /\ ~Truthy(environment.env.OPENROUTER_API_KEY)
    /\ ~Truthy(environment.env.ANTHROPIC_API_KEY)

\* C23: with no credential configured the error is reported once and the
\* process exits (status 1) before any capability connection is made, any
\* session is loaded or any message is sent to the model.
C23_NoCredentialExitsAtStartup ==
    NoCredential =>
        /\ boot.mcp_connects = 0 /\ ~boot.session_loaded /\ boot.sent = 0
        /\ boot.errors <= 1
        /\ (boot.pc \notin {"start", "flags"}) =>
              (boot.pc = "exited" /\
               (~environment.init_config /\ ~environment.clear =>
                    boot.errors = 1 /\ boot.exit_code = 1))

(***************************************************************************)
(* Permission Gate: rule matching for shell commands, rule order,          *)
(* session approvals                                                       *)
(***************************************************************************)
\* The rule list without its i-th rule.
Remove(rs, i) == SubSeq(rs, 1, i - 1) \o SubSeq(rs, i + 1, Len(rs))

\* What the rules above position i decide for the call ("none": nothing).
DecidedAbove(rs, i, tool_name, args) ==
    RuleLoop(SubSeq(rs, 1, i - 1), tool_name, CheckPath(args), CheckCommand(args)).allowed

\* The i-th rule is a rule (bash, P, action) with P not the wildcard.
BashRuleAt(rs, i, action) ==
    rs[i].tool = T_bash /\ rs[i].pattern # Star /\ rs[i].action = action

\* C24: for a bash call a deny rule (bash, P), P not the wildcard, applies
\* exactly when the command contains P: a command containing P is denied
\* (unless a rule of higher priority decides first), and for a command not
\* containing P the decision is the one the gate gives without the rule.
C24_BashDenyBySubstring ==
    BetweenCalls =>
        \A i \in Positions(rules) : BashRuleAt(rules, i, "deny") =>
            \A a \in ArgSet, m \in Modes : \A apr \in ApprovalSets(T_bash, a) :
                IF Contains(rules[i].pattern, CheckCommand(a))
                THEN DecidedAbove(rules, i, T_bash, a) = "none" =>
                         Check(rules, m, apr, T_bash, a).allowed = "deny"
                ELSE Check(rules, m, apr, T_bash, a).allowed =
                         Check(Remove(rules, i), m, apr, T_bash, a).allowed

\* The rule matches the call as the rule list is specified: the tool matcher is
\* the call's tool or the wildcard, and the pattern is the wildcard, or is
\* contained in the command (shell calls), or globs the path, or there is no
\* path-bearing argument.
SpecMatches(rule, tool_name, args) ==
    /\ rule.tool \in {Star, tool_name}
    /\ \/ rule.pattern = Star
       \/ IF tool_name = T_bash
          THEN Contains(rule.pattern, CheckCommand(args))
          ELSE ~Truthy(CheckPath(args)) \/ FnMatch(CheckPath(args), rule.pattern)

\* C25: for a bash call whose command contains P, an allow rule (bash, P), P
\* not the wildcard, that is the first rule in priority order to match gives
\* allow, in every mode.
C25_BashAllowBySubstring ==
    BetweenCalls =>
        \A i \in Positions(rules) : BashRuleAt(rules, i, "allow") =>
            \A a \in ArgSet :
                (/\ Contains(rules[i].pattern, CheckCommand(a))
                 /\ \A j \in 1..(i - 1) : ~SpecMatches(rules[j], T_bash, a)) =>
                    \A m \in Modes : \A apr \in ApprovalSets(T_bash, a) :
                        Check(rules, m, apr, T_bash, a).allowed = "allow"

\* Every call the rule matches gets the rule's action from the rule list rs,
\* in every mode and with every approval set.
Decides(rule, rs) ==
    \A t \in CallTools, a \in ArgSet :
        SpecMatches(rule, t, a) =>
            \A m \in Modes : \A apr \in ApprovalSets(t, a) :
                Check(rs, m, apr, t, a).allowed = rule.action

\* C26: rules are evaluated most-recently-added first and the first matching
\* rule decides: right after add_rule(t, p, a), called directly or by an
\* "always" approval, every call the new rule matches gets action a, whatever
\* the older rules, the mode and the approval set are.
C26_NewestRuleDecides ==
    [][/\ \A r \in RuleSet : AddRule(r) => Decides(r, rules')
       /\ (PromptForPermission("a") /\ rules' # rules) =>
              Decides(PermissionRule(gate.tool, Star, "allow"), rules')]_vars

\* C27: in ask mode with no matching rule, once the user has answered "y" to
\* the prompt for a call, the identical call (same tool, same arguments) is
\* allowed by the gate without a prompt, whichever argument carries the
\* target: path, file, save_path, command, or none.
C27_ApprovedCallNotAskedAgain ==
    [][PromptForPermission("y") =>
           Check(rules', mode', approved_this_session', gate.tool, gate.args).allowed
               = "allow"]_vars

(***************************************************************************)
(* Stream Decoder: the shape of the event sequence                         *)
(***************************************************************************)
\* evs is zero or more content events, then a tool_calls event carrying calls
\* exactly when calls is not empty, then one done event, and nothing more.
EventShape(evs, calls) ==
    \E n \in 0..Len(evs) :
        /\ \A i \in 1..n : evs[i].type = "content"
        /\ LET rest == SubSeq(evs, n + 1, Len(evs))
           IN  IF calls = <<>>
               THEN Len(rest) = 1 /\ rest[1].type = "done"
               ELSE /\ Len(rest) = 2
                    /\ rest[1].type = "tool_calls" /\ rest[1].calls = calls
                    /\ rest[2].type = "done"

\* C28: the events of one response are zero or more content events, then at
\* most one tool_calls event (there exactly when a tool-call slot was
\* populated), then exactly one done event, the last; until the decoder is
\* finished only content events have been yielded; a line without the data
\* prefix contributes nothing, and neither does any line after the sentinel.
C28_EventSequenceShape ==
    /\ [](stream # "iter" => EventShape(events, tool_calls))
    /\ [](stream = "iter" => \A i \in 1..Len(events) : events[i].type = "content")
    /\ [][\A line \in LineSet : (ReadLine(line) /\ line.kind = "other") =>
              UNCHANGED <<events, content_buffer, tool_calls>>]_vars
    /\ [][stream # "iter" => UNCHANGED <<events, consumed>>]_vars

(***************************************************************************)
(* Orchestration Loop: every call answered before the next send            *)
(***************************************************************************)
\* The tool messages answering the assistant message at k: the run of tool
\* messages that follows it.
AnswersOf(msgs, k) ==
    { j \in (k + 1)..Len(msgs) : \A h \in (k + 1)..j : msgs[h].role = "tool" }

\* Every tool call of every assistant message has exactly one answer.
AllAnswered(msgs) ==
    \A k \in 1..Len(msgs) :
        msgs[k].role = "assistant" =>
            \A c \in 1..Len(msgs[k].tool_calls) :
                Cardinality({ j \in AnswersOf(msgs, k) :
                                 msgs[j].tool_call_id = msgs[k].tool_calls[c].id }) = 1

\* C29: whenever the conversation is about to be sent to the model, in the
\* same turn or a later one, also after a turn that ended in an error, every
\* tool call of every assistant message in it is answered by exactly one
\* tool-result message carrying the call's id.
C29_NoUnansweredCallSent ==
    loop.pc = "model" => AllAnswered(messages)

(***************************************************************************)
(* Remote tool names: claims                                               *)
(***************************************************************************)
\* C30: a call made under the name advertised for a tool of the shared
\* namespace ("mcp_" + connection identity + "_" + tool name) is routed to
\* call_tool with exactly the connection identity and the tool name the
\* advertised name was built from, whatever the identity and the tool name
\* are, identities containing "_" included.
C30_AdvertisedNameResolvesBack ==
    [][\A k \in DOMAIN all_tools :
           RouteCall(SchemaName(all_tools[k])) =>
               /\ routed'.via = "call_tool"
               /\ routed'.server_name = all_tools[k].server_name
               /\ routed'.tool_name = all_tools[k].name]_vars

(***************************************************************************)
(* Capability Protocol Client: what survives a disconnect                  *)
(***************************************************************************)
\* The message the calling thread's wait is about to return (NoMsg: none yet).
Pending == IF fg.pc \in WaitPcs THEN WaitResponse(sobj, fg.obj) ELSE NoMsg

\* C31: a connection without a process handle has empty tool and resource
\* lists, and a wait never returns a message that was written by a child of an
\* earlier connection: the message a wait returns comes from the connection's
\* current child.
C31_NoStateSurvivesDisconnect ==
    /\ \A o \in 1..Len(sobj) :
           sobj[o].process = 0 => sobj[o].tools = <<>> /\ sobj[o].resources = <<>>
    /\ Pending # NoMsg => Pending.proc = sobj[fg.obj].process

(***************************************************************************)
(* Capability Protocol Client: the reader threads                          *)
(***************************************************************************)
\* The reader threads that are inside readline() on the stdout of the current
\* child of server object o.
ReadersOf(o) ==
    { r \in DOMAIN readers :
          /\ readers[r].obj = o
          /\ readers[r].pc = "read"
          /\ readers[r].proc = sobj[o].process }

\* What the client has written to the children's standard inputs.
StdinOf(ps) == [p \in DOMAIN ps |-> ps[p].log]

\* C32: at every moment at most one reader thread consumes the output of a
\* connection's child, however connect, disconnect and reconnect interleave
\* with the readers; and no step of a reader writes to a child's stdin.
C32_OneReaderPerConnection ==
    /\ [](\A o \in 1..Len(sobj) : Cardinality(ReadersOf(o)) <= 1)
    /\ [][\A r \in 1..MaxProcs :
              (ReaderLoop(r) \/ ReaderRead(r)) => StdinOf(procs') = StdinOf(procs)]_vars

(***************************************************************************)
(* Tool dispatch: claims                                                   *)
(***************************************************************************)
\* The run_tool call just made.
LastRun == ran'[Len(ran')]

\* C33: a run_tool call adds a row to the session's change tracker only when
\* it was a write or an edit that succeeded (its result is not an error), and,
\* the tracker working, every successful write or edit adds one; a failed
\* write or edit and every other tool add none.
C33_ChangeTrackedIffSucceeded ==
    [][Len(ran') > Len(ran) =>
          LET succeeded == LastRun.name \in {T_write, T_edit} /\ ~LastRun.failed
              recorded == Len(file_changes') > Len(file_changes)
          IN  /\ recorded => succeeded
              /\ (succeeded /\ LastRun.tracker_ok) => recorded]_vars

(***************************************************************************)
(* Capability Protocol Client: a failed connect                            *)
(***************************************************************************)
\* connect(n) fails in this step: the launch fails, or the wait for the
\* initialize response ends without a usable response.
ConnectFails(n) ==
    \/ ConnectLaunchFails(n)
    \/ fg.name = n /\ ConnectInitResponse /\ fg'.pc = "idle"

\* C34: a connect(n) that fails in the handshake (launch failure, timeout,
\* error response) returns False, and leaves every other connection as it
\* was: its process handle and its process, and the entries it has in
\* all_tools and all_resources.
C34_HandshakeFailureConfined ==
    [][\A n \in Names : ConnectFails(n) =>
          /\ ret' = Ret(n, FALSE, ret'.init, ret'.before)
          /\ \A m \in Names \ {n} :
                /\ servers'[m] = servers[m]
                /\ servers[m] # 0 =>
                      /\ sobj'[servers[m]] = sobj[servers[m]]
                      /\ sobj[servers[m]].process # 0 =>
                            procs'[sobj[servers[m]].process] = procs[sobj[servers[m]].process]
          /\ \A k \in DOMAIN all_tools :
                all_tools[k].server_name # n =>
                    k \in DOMAIN all_tools' /\ all_tools'[k] = all_tools[k]
          /\ \A u \in DOMAIN all_resources :
                all_resources[u].server_name # n =>
                    u \in DOMAIN all_resources' /\ all_resources'[u] = all_resources[u]]_vars

(***************************************************************************)
(* Capability Protocol Client: discovery                                   *)
(***************************************************************************)
\* The wait of the calling thread got no result: it timed out, or the message
\* it returns has no "result".
NoResult == Pending = NoMsg \/ Pending.kind # "result"

\* The provider's answer to the request the calling thread waits for has been
\* received (it is on the queue).
Answered ==
    \E i \in DOMAIN sobj[fg.obj].queue :
        /\ sobj[fg.obj].queue[i].id = fg.reqid
        /\ sobj[fg.obj].queue[i].kind = "result"
        /\ sobj[fg.obj].queue[i].proc = sobj[fg.obj].process

\* C35: after a successful initialize, a tool discovery or a resource
\* discovery whose wait got no result (timeout or error response) leaves that
\* capability list empty and connect goes on and returns True with the process
\* handle kept; and the discoveries do not disturb each other: neither changes
\* the other's list, and a resource discovery whose answer has been received
\* records the resources of that answer whatever the tool discovery got.
C35_DiscoveryFailureYieldsEmptyList ==
    [][/\ (ConnectToolsResponse /\ NoResult) =>
             /\ sobj'[fg.obj].tools = <<>>
             /\ fg'.pc = "wait_res"
             /\ sobj'[fg.obj].process = sobj[fg.obj].process
       /\ ConnectToolsResponse =>
             /\ sobj'[fg.obj].resources = sobj[fg.obj].resources
             /\ all_resources' = all_resources
       /\ (ConnectResourcesResponse /\ NoResult) =>
             /\ sobj'[fg.obj].resources = <<>>
             /\ ret' = Ret(fg.name, TRUE, fg.init, fg.before)
             /\ sobj'[fg.obj].process = sobj[fg.obj].process
             /\ sobj'[fg.obj].process # 0
       /\ ConnectResourcesResponse =>
             /\ sobj'[fg.obj].tools = sobj[fg.obj].tools
             /\ all_tools' = all_tools
       /\ (ConnectResourcesResponse /\ Answered) =>
             ResourceUris(sobj'[fg.obj].resources) = AdvertisedResources(fg.name)
      ]_vars

(***************************************************************************)
(* Capability Protocol Client: what is written to a child                  *)
(***************************************************************************)
\* The methods connect() writes to a child, in order.
Handshake == <<"initialize", "notifications/initialized", "tools/list", "resources/list">>

\* The lines written to a child so far are a handshake, or the beginning of
\* one, followed by calls and reads only.
HandshakeFirst(log) ==
    \A i \in DOMAIN log :
        IF i <= Len(Handshake) THEN log[i].method = Handshake[i]
        ELSE log[i].method \in {"tools/call", "resources/read"}

\* C36: what the client writes to a child is, in this order, the initialize
\* request, the initialized notification, the tool-discovery request and the
\* resource-discovery request, and tools/call and resources/read only after
\* all of these; and the initialized notification is written only after the
\* child's successful response to the initialize request has been received.
C36_HandshakeOrder ==
    /\ [](\A p \in DOMAIN procs : HandshakeFirst(procs[p].log))
    /\ [][(ConnectInitResponse /\ fg'.pc = "wait_tools") =>
              /\ Pending.kind = "result"
              /\ Pending.id = fg.reqid
              /\ Pending.proc = sobj[fg.obj].process]_vars

(***************************************************************************)
(* Capability Protocol Client: request ids                                 *)
(***************************************************************************)
\* Every line the client has written through server object o, oldest first:
\* the lines written to the children it spawned, in the order it spawned them
\* (a write goes to the object's current child only).
RECURSIVE WrittenFrom(_, _)
WrittenFrom(o, p) ==
    IF p > Len(procs) THEN <<>>
    ELSE (IF procs[p].obj = o THEN procs[p].log ELSE <<>>) \o WrittenFrom(o, p + 1)

Written(o) == WrittenFrom(o, 1)

IsRequest(line) == line.method # "notifications/initialized"

Requests(log) == { i \in DOMAIN log : IsRequest(log[i]) }

\* C37: on every connection (MCPServer object) each request written carries
\* an id greater than the id of every request written before it, also when the
\* requests went to different children (disconnect and reconnect); a
\* notification carries no id (0) and takes none: the ids taken so far are as
\* many as the requests written.
C37_RequestIdsIncrease ==
    \A o \in 1..Len(sobj) :
        \E log \in {Written(o)} :
            /\ \A i, j \in Requests(log) : i < j => 0 < log[i].id /\ log[i].id < log[j].id
            /\ \A i \in DOMAIN log \ Requests(log) : log[i].id = 0
            /\ sobj[o].request_id = Cardinality(Requests(log))

\* C37 witness: a connection has written requests to two children (it was
\* connected, disconnected and connected again), the second handshake has got
\* as far as the tool-discovery request, after the notification.
C37_Witness ==
    \E o \in 1..Len(sobj), p, q \in DOMAIN procs :
        /\ p < q /\ procs[p].obj = o /\ procs[q].obj = o
        /\ ~procs[p].alive /\ procs[p].log # <<>>
        /\ Len(procs[q].log) >= 3

(***************************************************************************)
(* Orchestration Loop: what a turn persists                                *)
(***************************************************************************)
\* The position of the last user message in a list of messages or rows (0: none).
LastUser(list) ==
    IF \E k \in DOMAIN list : list[k].role = "user"
    THEN CHOOSE k \in DOMAIN list :
             list[k].role = "user" /\ \A j \in DOMAIN list : j > k => list[j].role # "user"
    ELSE 0

\* What the turn in progress has added to a list: everything from its user
\* message on, as (role, tool-call id, content); an empty content and a
\* missing one are the same to get_messages().
TurnOf(list) ==
    LET from == LastUser(list)
    IN  [k \in 1..(Len(list) - from + 1) |->
            [role |-> list[from + k - 1].role,
             tool_call_id |-> list[from + k - 1].tool_call_id,
             content |-> IF Truthy(list[from + k - 1].content)
                         THEN list[from + k - 1].content ELSE <<>>]]

\* agentic_loop returns in this step: the turn is complete.
TurnCompletes == loop.pc # "prompt" /\ loop'.pc = "prompt" /\ loop'.outcome = "returned"

\* C38: when a turn completes, the rows persisted for the session during the
\* turn are, in order, the messages the turn appended to the conversation, by
\* role, tool-call id and content: every tool result, also those of blocked
\* and of skipped calls, has been persisted.
C38_PersistedEqualsConversation ==
    [][TurnCompletes =>
          /\ LastUser(messages') > 0 /\ LastUser(db_messages') > 0
          /\ TurnOf(db_messages') = TurnOf(messages')]_vars

(***************************************************************************)
(* Capability Protocol Client: children and namespace entries              *)
(***************************************************************************)
\* The connection named n is registered and has a process handle.
HasProcess(n) == servers[n] # 0 /\ sobj[servers[n]].process # 0

\* C39: every child process that is alive is the current process handle of a
\* registered connection (so disconnect_all reaches it), and every entry of
\* all_tools and all_resources belongs to a registered connection that has a
\* process handle, whatever add_server, connect and disconnect calls were made.
C39_NoOrphans ==
    /\ \A p \in DOMAIN procs :
           procs[p].alive => \E n \in Names : HasProcess(n) /\ sobj[servers[n]].process = p
    /\ \A k \in DOMAIN all_tools : HasProcess(all_tools[k].server_name)
    /\ \A u \in DOMAIN all_resources : HasProcess(all_resources[u].server_name)

(***************************************************************************)
(* Orchestration Loop: /compact on a short conversation                    *)
(***************************************************************************)
\* C40: /compact on a conversation of fewer than 4 messages leaves the
\* in-memory conversation and the persisted rows of the session as they were.
C40_ShortCompactChangesNothing ==
    [][((\E resp \in CompactResponseSet : Compact(resp)) /\ Len(messages) < 4) =>
          /\ messages' = messages
          /\ db_messages' = db_messages]_vars

=============================================================================
